---- MODULE Spec2Model ----
(***************************************************************************)
(* ReadingRabbit: the resource monitor (src/src/resource_monitor.py) and   *)
(* the host that starts, stops and joins it (src/main.py, src/src/gui.py). *)
(*                                                                         *)
(* Time is a global integer clock.  A configuration states how many clock  *)
(* ticks make a second (hz): 1 where whole seconds suffice, 10 where the    *)
(* 0.1 s floor of the interval matters.  Computation steps take no         *)
(* time; time passes only while every thread is blocked (time.sleep,       *)
(* Thread.join, processor.process, waiting for the user).                  *)
(* An absent Optional[float] is the sentinel None, float("nan") is the     *)
(* sentinel NaN; percentages and instants are naturals.                    *)
(***************************************************************************)
EXTENDS Integers, Sequences, FiniteSets, TLC

\* ---------------------------------------------------------------- bounds
MaxSamples == 2      \* samples one monitor takes before the model stops it
MaxTime    == 3      \* last instant of the clock
MaxRuns    == 2      \* processing runs (monitor instances) of the host
MaxStored  == 3      \* samples of a recorded history handed to finalize
MaxCalls   == 2      \* calls of _finalise_summary on one history
MaxFrames  == 2      \* frames of a video
MaxElapsed == 1      \* seconds a video run may take
MaxEntries == 2      \* entries of ocr_preprocessing in the YAML file
MaxLangs   == 2      \* languages asked for
MaxGpus    == 3      \* devices GPUtil.getGPUs() reports

\* ------------------------------------------------------- program constants
JoinTimeout    == 2    \* monitor_thread.join(timeout=2.0), in seconds
MinTrendWindow == 10   \* max(10.0, float(trend_window)), in seconds
MinIntervalTenths     == 1    \* max(0.1, float(interval)), in tenths of a second
DefaultIntervalTenths == 10   \* _ensure_float(..., 1.0, 0.1), in tenths
MinCooldown    == 0    \* max(0.0, float(alert_cooldown))
DefaultCooldown       == 60   \* _ensure_float(alert_cooldown_seconds, 60.0, 1.0)
MinLoadedCooldown     == 1    \* the minimum load_config gives the cooldown
DefaultTrendWindow    == 60   \* _ensure_float(analytics_trend_window, 60.0, 10.0)

None == -1
NaN  == -2

MonIds  == 1 .. MaxRuns
Metrics == <<"cpu", "ram", "gpu", "vram">>

Max(a, b) == IF a >= b THEN a ELSE b
Min(a, b) == IF a <= b THEN a ELSE b

\* ------------------------------------------------------------ environment
CpuValues == {10, 30}              \* psutil.cpu_percent readings
RamValues == {40}                  \* psutil.virtual_memory().percent readings
GpuList   == <<[load |-> 50, mem |-> 55], [load |-> 70, mem |-> 75]>>
GpuLists  == {<<>>, GpuList}       \* what GPUtil.getGPUs() may return

\* str.lower() on the threshold keys the configurations use
Lower(key) ==
    CASE key = "CPU"     -> "cpu"
      [] key = "JA"      -> "ja"
      [] key = "En"      -> "en"
      [] key = "Default" -> "default"
      [] OTHER           -> key
\* str.upper() on the metric names
Upper(key) ==
    CASE key = "cpu"  -> "CPU"
      [] key = "ram"  -> "RAM"
      [] key = "gpu"  -> "GPU"
      [] key = "vram" -> "VRAM"
      [] OTHER        -> key

\* get_gpu_usage: lib = GPUtil imported, raises = getGPUs() raised,
\* gpus = the list it returned, gpu_index = <<i>> for the configured index i
\* and <<>> for None (an index may be negative, so None cannot stand for it)
get_gpu_usage(lib, raises, gpus, gpu_index) ==
    IF ~lib THEN <<None, None>>
    ELSE IF raises THEN <<None, None>>
    ELSE IF Len(gpus) = 0 THEN <<None, None>>
    ELSE LET index == IF gpu_index # <<>> THEN gpu_index[1] ELSE 0
             \* Python indexing: -n .. -1 count from the end, else IndexError
             pos   == IF index >= 0 /\ index < Len(gpus) THEN index + 1
                      ELSE IF index < 0 /\ index >= -Len(gpus)
                           THEN Len(gpus) + index + 1
                      ELSE 1
         IN <<gpus[pos].load, gpus[pos].mem>>

\* ------------------------------------------------------------ constructor
RECURSIVE KeyPos(_, _, _)
KeyPos(pairs, key, i) ==
    IF i > Len(pairs) THEN 0
    ELSE IF pairs[i][1] = key THEN i
    ELSE KeyPos(pairs, key, i + 1)

\* the dict comprehension of __init__: keys lowered, None values dropped,
\* a repeated key keeps its first position and takes the later value
RECURSIVE NormThresholds(_, _, _)
NormThresholds(raw, i, acc) ==
    IF i > Len(raw) THEN acc
    ELSE LET key == Lower(raw[i][1])
             val == raw[i][2]
             p   == KeyPos(acc, key, 1)
         IN IF val = None THEN NormThresholds(raw, i + 1, acc)
            ELSE IF p = 0
                 THEN NormThresholds(raw, i + 1, Append(acc, <<key, val>>))
            ELSE NormThresholds(raw, i + 1, [acc EXCEPT ![p] = <<key, val>>])

NoLast == [k \in {"cpu", "ram", "gpu", "vram"} |-> None]

\* a duration of so many tenths of a second in clock ticks, rounded down
Tenths2Ticks(tenths, hz) == (tenths * hz) \div 10

ClampIntervalNot(interval, hz) == interval

\* self.interval = max(0.1, float(interval))
ClampInterval(interval, hz) ==
    Max(Tenths2Ticks(MinIntervalTenths, hz), interval)

\* _ensure_float(value, default, minimum) of config.py; value is <<v>> for a
\* number and <<>> for what float() rejects
_ensure_float(value, default, minimum) ==
    LET result == IF value # <<>> THEN value[1] ELSE default
    IN Max(result, minimum)

\* load_config line 152: the monitor_interval of config.yaml, in clock ticks
load_interval(value, hz) ==
    _ensure_float(value, Tenths2Ticks(DefaultIntervalTenths, hz),
                  Tenths2Ticks(MinIntervalTenths, hz))

\* load_config lines 159-161: alert_cooldown_seconds, in clock ticks
load_cooldown(value, hz) ==
    _ensure_float(value, DefaultCooldown * hz, MinLoadedCooldown * hz)

\* load_config lines 170-174: analytics_trend_window, in clock ticks
load_trend_window(value, hz) ==
    _ensure_float(value, DefaultTrendWindow * hz, MinTrendWindow * hz)

\* ResourceMonitor.__init__
NewMonitor(cfg) ==
    [ hz               |-> cfg.hz,             \* clock ticks per second
      given_interval   |-> cfg.interval,       \* the argument as passed
      interval         |-> ClampInterval(cfg.interval, cfg.hz),
      gpu_index        |-> cfg.gpu_index,
      log_path         |-> cfg.log_path,
      alert_thresholds |-> NormThresholds(cfg.alert_thresholds, 1, <<>>),
      raw_thresholds   |-> cfg.alert_thresholds,  \* the argument as passed
      alert_callback   |-> cfg.alert_callback,
      update_raises    |-> cfg.update_raises,  \* the update callback may raise
      stop_after       |-> cfg.stop_after,     \* the update callback sets stop
                                               \* at that many calls (0: never)
      alert_raises     |-> cfg.alert_raises,   \* the alert callback may raise
      alert_cooldown   |-> Max(MinCooldown, cfg.alert_cooldown),
      last_alerts      |-> NoLast,
      summary_path     |-> cfg.summary_path,
      alert_log_path   |-> cfg.alert_log_path,
      trend_window     |-> Max(MinTrendWindow * cfg.hz, cfg.trend_window),
      samples          |-> <<>>,
      sample_times     |-> <<>>,
      summary_data     |-> <<>>,
      summary_text     |-> <<>>,
      alert_history    |-> <<>>,
      \* run()'s locals and position
      pc       |-> "start",
      csv_file |-> "none",      \* "none" | "open" | "closed"
      pending  |-> 0,           \* rows buffered in csv_file, not yet on disk
      cur      |-> [cpu |-> None, ram |-> None, gpu |-> None, vram |-> None],
      wake     |-> 0,           \* instant at which time.sleep returns
      exc      |-> FALSE,       \* an exception is propagating out of run
      \* observations of the run
      looped      |-> FALSE,    \* run entered its try block (line 105)
      updates     |-> <<>>,     \* readings passed to update_callback
      alert_calls |-> <<>>,     \* calls of alert_callback: metric, value, raised
      evaluated   |-> 0,        \* calls of _check_alerts
      log_rows    |-> 0,        \* rows handed to writer.writerow in ticks
      finalised   |-> 0,        \* calls of _finalise_summary
      errors      |-> {} ]      \* artifacts whose write failure was logged

\* a monitor that has not been constructed yet
Unborn ==
    [NewMonitor([interval |-> 1, gpu_index |-> <<>>, log_path |-> FALSE,
                 alert_thresholds |-> <<>>, alert_callback |-> FALSE,
                 update_raises |-> FALSE, alert_raises |-> FALSE,
                 stop_after |-> 0,
                 alert_cooldown |-> 0, summary_path |-> FALSE,
                 alert_log_path |-> FALSE, trend_window |-> 10, hz |-> 1])
     EXCEPT !.pc = "unborn"]

\* ----------------------------------------------------------------- state
VARIABLES
    mon,          \* MonIds -> ResourceMonitor instance with its run() frame
    stop_event,   \* threading.Event shared by host, processor and monitors
    pause_event,  \* threading.Event toggled by the Pause/Resume button
    clock,        \* time.monotonic(), in seconds
    sensors,      \* the machine: [cpu: possible readings, lib: GPUtil imported,
                  \*   gpus: lists getGPUs may return, faulty: calls may raise,
                  \*   script: the readings of a patched cpu_percent, in call
                  \*   order, count: calls it has served]
    files,        \* the disk: [log, summary, alerts], each <<>> or <<content>>
    stop_mark,    \* [time, lens, in_pause]: when SetStop set stop, the
                  \*   samples stored then, who was between ticks with the
                  \*   pause signal set (and it has stayed set since);
                  \*   paused: <<>> or <<[samples, updates]>>, what was
                  \*   stored and shown when the pause signal was set
    host,         \* main(): start_processing frame, GUI flags, monitor refs
    proc,         \* the VideoProcessor with its process() frame
    verifier,     \* llm._verifier: <<>> (None) or <<model name>> once loaded
    llm_call,     \* the verify_text calls made so far, with their outcome
    conf          \* the AppConfig load_config returned, and what
                  \*   preprocessing_for answered last

ocr_vars == <<proc, verifier, llm_call, conf>>

vars == <<mon, stop_event, pause_event, clock, sensors, files, stop_mark, host,
          ocr_vars>>

\* no signal has been set yet
NoMark ==
    [time |-> 0, lens |-> [m \in MonIds |-> 0],
     in_pause |-> [m \in MonIds |-> FALSE], paused |-> <<>>,
     frames |-> 0]

\* before start_processing has made a VideoProcessor and before any OCR text
\* has been handed to the language model
NoPipeline ==
    /\ proc = [pc |-> "idle"]
    /\ verifier = <<>>
    /\ llm_call = <<>>
    /\ conf = <<>>

Ended(m) == mon[m].pc \in {"done", "raised", "collected"}
Alive(m) == m \in MonIds /\ mon[m].pc # "unborn" /\ ~Ended(m)

\* ------------------------------------------------------- alert evaluation
MetricValueAbsentAsFull(cur, key) ==
    LET v == CASE key = "cpu"  -> cur.cpu
               [] key = "ram"  -> cur.ram
               [] key = "gpu"  -> cur.gpu
               [] key = "vram" -> cur.vram
               [] OTHER        -> None
    IN IF v = None THEN 100 ELSE v

\* metrics.get(key) of _check_alerts
MetricValue(cur, key) ==
    CASE key = "cpu"  -> cur.cpu
      [] key = "ram"  -> cur.ram
      [] key = "gpu"  -> cur.gpu
      [] key = "vram" -> cur.vram
      [] OTHER        -> None

InCooldownReversed(last, now, cooldown) ==
    last # None /\ (now - last) > cooldown

\* the cooldown test: last is not None and (now - last) < alert_cooldown
InCooldown(last, now, cooldown) == last # None /\ (now - last) < cooldown

DeliverAlertPropagates(st, key, value, raises) ==
    [st EXCEPT !.calls = Append(@, [metric |-> key, value |-> value,
                                    raised |-> raises]),
               !.raised = raises]

\* try: self.alert_callback(key, value) / except Exception: pass
\* st.raised stays as it is: the exception of a raising callback is dropped
DeliverAlert(st, key, value, raises) ==
    [st EXCEPT !.calls = Append(@, [metric |-> key, value |-> value,
                                    raised |-> raises])]

\* one pass of the for loop of _check_alerts, from threshold number i on;
\* st = [last, hist, calls, raised], raising = the keys whose callback raises
RECURSIVE AlertLoop(_, _, _, _, _, _)
AlertLoop(thresholds, cur, now, cooldown, raising, st) ==
    IF thresholds = <<>> \/ st.raised THEN st
    ELSE LET key       == Head(thresholds)[1]
             threshold == Head(thresholds)[2]
             value     == MetricValue(cur, key)
             rest      == Tail(thresholds)
         IN IF value = None
            THEN AlertLoop(rest, cur, now, cooldown, raising, st)
            ELSE IF value >= threshold
            THEN IF InCooldown(st.last[key], now, cooldown)
                 THEN AlertLoop(rest, cur, now, cooldown, raising, st)
                 ELSE AlertLoop(rest, cur, now, cooldown, raising,
                        DeliverAlert(
                          [st EXCEPT !.last[key] = now,
                                     !.hist = Append(@, [at |-> now,
                                                         metric |-> Upper(key),
                                                         value |-> value])],
                          key, value, key \in raising))
            ELSE AlertLoop(rest, cur, now, cooldown, raising, st)

\* the guard of _check_alerts: nothing is evaluated without thresholds or
\* without an alert callback
AlertsEnabled(r) == r.alert_thresholds # <<>> /\ r.alert_callback

CheckAlertsSlidingCooldown(r, cur, now, raising) ==
    LET st0 == [last |-> r.last_alerts, hist |-> r.alert_history,
                calls |-> r.alert_calls, raised |-> FALSE]
    IN IF ~AlertsEnabled(r) THEN st0
       ELSE [AlertLoop(r.alert_thresholds, cur, now, r.alert_cooldown,
                       raising, st0)
                EXCEPT !.last = [k \in DOMAIN @ |-> now]]

\* ResourceMonitor._check_alerts on monitor record r
check_alerts(r, cur, now, raising) ==
    LET st0 == [last |-> r.last_alerts, hist |-> r.alert_history,
                calls |-> r.alert_calls, raised |-> FALSE]
    IN IF ~AlertsEnabled(r) THEN st0
       ELSE AlertLoop(r.alert_thresholds, cur, now, r.alert_cooldown,
                      raising, st0)

\* ------------------------------------------------------------ the summary
_is_nan(value) == value = NaN

RECURSIVE SeqSum(_)
SeqSum(s) == IF s = <<>> THEN 0 ELSE Head(s) + SeqSum(Tail(s))
SeqMaxLast(s) == s[Len(s)]

RECURSIVE SeqMax(_)
SeqMax(s) == IF Len(s) = 1 THEN s[1] ELSE Max(Head(s), SeqMax(Tail(s)))
RECURSIVE SeqMin(_)
SeqMin(s) == IF Len(s) = 1 THEN s[1] ELSE Min(Head(s), SeqMin(Tail(s)))

PresentValuesAll(samples, metric) ==
    [i \in 1 .. Len(samples) |-> samples[i][metric]]

\* [sample[metric] for sample in samples if not _is_nan(sample[metric])]
RECURSIVE PresentValues(_, _)
PresentValues(samples, metric) ==
    IF samples = <<>> THEN <<>>
    ELSE LET v == Head(samples)[metric]
         IN IF _is_nan(v) THEN PresentValues(Tail(samples), metric)
            ELSE <<v>> \o PresentValues(Tail(samples), metric)

\* the window_values comprehension over zip(samples, sample_times)
RECURSIVE WindowValues(_, _, _, _)
WindowValues(samples, times, cutoff, metric) ==
    IF samples = <<>> \/ times = <<>> THEN <<>>
    ELSE LET v    == Head(samples)[metric]
             rest == WindowValues(Tail(samples), Tail(times), cutoff, metric)
         IN IF Head(times) >= cutoff /\ ~_is_nan(v) THEN <<v>> \o rest ELSE rest

MetricSet == {Metrics[i] : i \in 1 .. Len(Metrics)}

\* summary: metric -> average (as <<sum, count>>), maximum, minimum,
\* for the metrics that have a present value
SummaryOf(samples) ==
    [metric \in {k \in MetricSet : PresentValues(samples, k) # <<>>} |->
        LET values == PresentValues(samples, metric)
        IN [average |-> <<SeqSum(values), Len(values)>>,
            maximum |-> SeqMax(values),
            minimum |-> SeqMin(values)]]

CutoffZero(times, window) == 0

Cutoff(times, window) ==
    IF times # <<>> THEN times[Len(times)] - window ELSE 0

\* trend_summary: metric -> last minus first value in the trailing window
TrendOf(samples, times, window) ==
    LET cutoff == Cutoff(times, window)
    IN [metric \in {k \in MetricSet :
                       WindowValues(samples, times, cutoff, k) # <<>>} |->
          LET wv == WindowValues(samples, times, cutoff, metric)
          IN wv[Len(wv)] - wv[1]]

Abs(x) == IF x < 0 THEN -x ELSE x
\* "{:.1f}" of sum/count, in tenths
Tenths(avg) == (20 * avg[1] + avg[2]) \div (2 * avg[2])

\* the rendered lines of summary_text, one per metric of the summary
RECURSIVE TextLines(_, _, _)
TextLines(metrics, summary, trend) ==
    IF metrics = <<>> THEN <<>>
    ELSE LET metric == Head(metrics)
             rest   == TextLines(Tail(metrics), summary, trend)
         IN IF metric \notin DOMAIN summary THEN rest
            ELSE <<[name  |-> Upper(metric),
                    avg   |-> Tenths(summary[metric].average),
                    mx    |-> summary[metric].maximum,
                    mn    |-> summary[metric].minimum,
                    trend |-> IF metric \notin DOMAIN trend THEN <<>>
                              ELSE <<IF trend[metric] > 0 THEN "increased"
                                     ELSE IF trend[metric] < 0 THEN "decreased"
                                     ELSE "stayed level",
                                     Abs(trend[metric])>>]>> \o rest

\* the guard of _finalise_summary: if not self.samples: return
NothingToSummarise(r) == r.samples = <<>>

FinaliseSummaryCountsCalls(r) ==
    IF NothingToSummarise(r) THEN [r EXCEPT !.finalised = @ + 1]
    ELSE LET summary == SummaryOf(r.samples)
             trend   == TrendOf(r.samples, r.sample_times, r.trend_window)
         IN [r EXCEPT !.finalised = @ + 1,
                      !.summary_data = <<summary>>,
                      !.summary_text =
                          <<[lines  |-> TextLines(Metrics, summary, trend),
                             alerts |-> Len(r.alert_history) + r.finalised]>>]

\* ResourceMonitor._finalise_summary on monitor record r: the new record
finalise_summary(r) ==
    IF NothingToSummarise(r) THEN [r EXCEPT !.finalised = @ + 1]
    ELSE LET summary == SummaryOf(r.samples)
             trend   == TrendOf(r.samples, r.sample_times, r.trend_window)
         IN [r EXCEPT !.finalised = @ + 1,
                      !.summary_data = <<summary>>,
                      !.summary_text =
                          <<[lines  |-> TextLines(Metrics, summary, trend),
                             alerts |-> Len(r.alert_history)]>>]

FinaliseFilesStopAtFailure(r, f, sum_ok, alert_ok) ==
    IF NothingToSummarise(r) \/ (r.summary_path /\ ~sum_ok) THEN f
    ELSE [f EXCEPT
            !.summary = IF r.summary_path
                        THEN <<[interval |-> r.interval,
                                trend_window |-> r.trend_window,
                                metrics |-> SummaryOf(r.samples),
                                trend |-> TrendOf(r.samples, r.sample_times,
                                                  r.trend_window),
                                alerts_triggered |-> Len(r.alert_history)]>>
                        ELSE @,
            !.alerts  = IF r.alert_log_path /\ r.alert_history # <<>> /\ alert_ok
                        THEN <<r.alert_history>>
                        ELSE @]

\* the files _finalise_summary leaves on disk; sum_ok / alert_ok say whether
\* writing the summary / the alert history succeeds
finalise_files(r, f, sum_ok, alert_ok) ==
    IF NothingToSummarise(r) THEN f
    ELSE [f EXCEPT
            !.summary = IF r.summary_path /\ sum_ok
                        THEN <<[interval |-> r.interval,
                                trend_window |-> r.trend_window,
                                metrics |-> SummaryOf(r.samples),
                                trend |-> TrendOf(r.samples, r.sample_times,
                                                  r.trend_window),
                                alerts_triggered |-> Len(r.alert_history)]>>
                        ELSE @,
            !.alerts  = IF r.alert_log_path /\ r.alert_history # <<>> /\ alert_ok
                        THEN <<r.alert_history>>
                        ELSE @]

\* the write failures _finalise_summary catches and logs: a file is attempted
\* under the same conditions as in finalise_files
finalise_errors(r, sum_ok, alert_ok) ==
    IF NothingToSummarise(r) THEN r.errors
    ELSE r.errors
           \cup (IF r.summary_path /\ ~sum_ok THEN {"summary"} ELSE {})
           \cup (IF r.alert_log_path /\ r.alert_history # <<>> /\ ~alert_ok
                 THEN {"alerts"} ELSE {})

\* --------------------------------------------------- ResourceMonitor.run
Keys(thresholds) == {thresholds[i][1] : i \in 1 .. Len(thresholds)}

\* what get_gpu_usage can return on this machine for monitor record r
GpuReadings(r) ==
    {get_gpu_usage(sensors.lib, raises, gpus, r.gpu_index) :
        raises \in IF sensors.faulty THEN BOOLEAN ELSE {FALSE},
        gpus \in sensors.gpus}

\* what psutil.cpu_percent can return now: any reading of the machine, or,
\* when patched as the test patches it, cpu_sequence[min(count, len - 1)]
CpuReadings ==
    IF sensors.script = <<>> THEN sensors.cpu
    ELSE {sensors.script[Min(sensors.count + 1, Len(sensors.script))]}

\* the machine after one call of cpu_percent
CpuServed ==
    IF sensors.script = <<>> THEN sensors
    ELSE [sensors EXCEPT !.count = Min(@ + 1, Len(sensors.script))]

\* the exception leaves the try block: the finally clause runs next
Raise(r) == [r EXCEPT !.exc = TRUE, !.pc = "finally"]

\* lines 90-100: open the raw-sample log and buffer its header
MonStart(m) ==
    /\ mon[m].pc = "start"
    /\ IF mon[m].log_path
       THEN \/ /\ mon' = [mon EXCEPT ![m].csv_file = "open",
                                     ![m].pending = 1,
                                     ![m].pc = "prime"]
               /\ files' = [files EXCEPT !.log = <<0>>]
            \/ /\ mon' = [mon EXCEPT ![m].pc = "prime"]   \* except Exception
               /\ UNCHANGED files
       ELSE /\ mon' = [mon EXCEPT ![m].pc = "prime"]
            /\ UNCHANGED files
    /\ UNCHANGED <<stop_event, pause_event, clock, sensors, stop_mark, host,
                 ocr_vars>>

\* line 103: psutil.cpu_percent(interval=None), outside the try block
MonPrime(m) ==
    /\ mon[m].pc = "prime"
    /\ \/ /\ mon' = [mon EXCEPT ![m].pc = "loop", ![m].looped = TRUE]
          /\ sensors' = CpuServed
       \/ /\ sensors.faulty
          /\ mon' = [mon EXCEPT ![m].pc = "raised", ![m].exc = TRUE]
          /\ UNCHANGED sensors
    /\ UNCHANGED <<stop_event, pause_event, clock, files, stop_mark, host,
                 ocr_vars>>

LoopIgnoresStop(stop) == FALSE

\* line 106: while not self.stop_event.is_set()
LoopExits(stop) == stop

MonLoop(m) ==
    /\ mon[m].pc = "loop"
    /\ mon' = [mon EXCEPT ![m].pc = IF LoopExits(stop_event) THEN "finally"
                                    ELSE "pausechk"]
    /\ UNCHANGED <<stop_event, pause_event, clock, sensors, files, stop_mark, host,
                 ocr_vars>>

PausedIterationFallsThrough(r) == [r EXCEPT !.pc = "sample"]

\* lines 107-109: a paused iteration sleeps and goes back to the stop check
PausedIteration(r) == [r EXCEPT !.pc = "psleep", !.wake = clock + r.interval]

MonPauseCheck(m) ==
    /\ mon[m].pc = "pausechk"
    /\ mon' = [mon EXCEPT ![m] = IF pause_event THEN PausedIteration(@)
                                 ELSE [@ EXCEPT !.pc = "sample"]]
    /\ UNCHANGED <<stop_event, pause_event, clock, sensors, files, stop_mark, host,
                 ocr_vars>>

\* time.sleep(self.interval) returns, in a paused or a running iteration
MonWake(m) ==
    /\ mon[m].pc \in {"psleep", "sleep"}
    /\ clock >= mon[m].wake
    /\ mon' = [mon EXCEPT ![m].pc = "loop"]
    /\ UNCHANGED <<stop_event, pause_event, clock, sensors, files, stop_mark, host,
                 ocr_vars>>

StoreSamplePrepended(r, cpu, ram, gpu) ==
    [r EXCEPT !.cur = [cpu |-> cpu, ram |-> ram, gpu |-> gpu[1], vram |-> gpu[2]],
              !.samples = <<[cpu  |-> cpu,
                             ram  |-> ram,
                             gpu  |-> IF gpu[1] # None THEN gpu[1] ELSE NaN,
                             vram |-> IF gpu[2] # None THEN gpu[2] ELSE NaN]>>
                          \o @,
              !.sample_times = Append(@, clock),
              !.pc = "log"]

StoreSampleEvicts(r, cpu, ram, gpu) ==
    [r EXCEPT !.cur = [cpu |-> cpu, ram |-> ram, gpu |-> gpu[1], vram |-> gpu[2]],
              !.samples = <<[cpu  |-> cpu,
                             ram  |-> ram,
                             gpu  |-> IF gpu[1] # None THEN gpu[1] ELSE NaN,
                             vram |-> IF gpu[2] # None THEN gpu[2] ELSE NaN]>>,
              !.sample_times = <<clock>>,
              !.pc = "log"]

\* lines 115-123: store the reading and its instant
StoreSample(r, cpu, ram, gpu) ==
    [r EXCEPT !.cur = [cpu |-> cpu, ram |-> ram, gpu |-> gpu[1], vram |-> gpu[2]],
              !.samples = Append(@,
                  [cpu  |-> cpu,
                   ram  |-> ram,
                   gpu  |-> IF gpu[1] # None THEN gpu[1] ELSE NaN,
                   vram |-> IF gpu[2] # None THEN gpu[2] ELSE NaN]),
              !.sample_times = Append(@, clock),
              !.pc = "log"]

\* lines 111-123: read the sensors (psutil may raise) and store the sample
MonSample(m) ==
    /\ mon[m].pc = "sample"
    /\ Len(mon[m].samples) < MaxSamples \/ sensors.script # <<>>
    /\ \/ /\ \E cpu \in CpuReadings, ram \in RamValues,
                gpu \in GpuReadings(mon[m]) :
                  mon' = [mon EXCEPT ![m] = StoreSample(@, cpu, ram, gpu)]
          /\ sensors' = CpuServed
       \/ /\ sensors.faulty
          /\ mon' = [mon EXCEPT ![m] = Raise(@)]
          /\ UNCHANGED sensors
    /\ UNCHANGED <<stop_event, pause_event, clock, files, stop_mark, host,
                 ocr_vars>>

\* lines 125-136: writer.writerow and csv_file.flush; a failing flush raises
\* and leaves the row in the buffer
MonLog(m) ==
    /\ mon[m].pc = "log"
    /\ IF mon[m].csv_file = "open"
       THEN \/ /\ mon' = [mon EXCEPT ![m].log_rows = @ + 1,
                                     ![m].pending = 0,
                                     ![m].pc = "update"]
               /\ files' = [files EXCEPT
                              !.log = IF @ = <<>> THEN <<mon[m].pending + 1>>
                                      ELSE <<@[1] + mon[m].pending + 1>>]
            \/ /\ mon' = [mon EXCEPT ![m] = Raise([@ EXCEPT !.pending = @ + 1])]
               /\ UNCHANGED files
       ELSE /\ mon' = [mon EXCEPT ![m].pc = "update"]
            /\ UNCHANGED files
    /\ UNCHANGED <<stop_event, pause_event, clock, sensors, stop_mark, host,
                 ocr_vars>>

\* Event.set() on stop_event, by whichever thread; stop_mark notes when
MarkStop ==
    [stop_mark EXCEPT
       !.time = clock,
       !.lens = [m \in MonIds |-> Len(mon[m].samples)],
       !.in_pause = [m \in MonIds |->
                       /\ pause_event
                       /\ mon[m].pc \in {"loop", "pausechk", "psleep"}],
       !.frames = IF proc.pc \in {"idle", "start"} THEN 0 ELSE proc.frame_idx]

MonUpdateTwice(m) ==
    /\ mon[m].pc = "update"
    /\ mon' = [mon EXCEPT ![m].updates = Append(Append(@, mon[m].cur), mon[m].cur),
                          ![m].pc = "alerts"]
    /\ UNCHANGED <<stop_event, pause_event, clock, sensors, files, stop_mark, host,
                 ocr_vars>>

\* line 138: self.update_callback(cpu, gpu_load, gpu_mem, ram); the callback
\* of the test sets the stop signal once it has been called often enough
MonUpdate(m) ==
    /\ mon[m].pc = "update"
    /\ LET called == [mon[m] EXCEPT !.updates = Append(@, mon[m].cur)]
           stops  == called.stop_after > 0
                       /\ Len(called.updates) >= called.stop_after
       IN /\ \/ mon' = [mon EXCEPT ![m] = [called EXCEPT !.pc = "alerts"]]
             \/ /\ mon[m].update_raises
                /\ mon' = [mon EXCEPT ![m] = Raise(called)]
          /\ stop_event' = (stop_event \/ stops)
          /\ stop_mark' = IF stops /\ ~stop_event THEN MarkStop ELSE stop_mark
    /\ UNCHANGED <<pause_event, clock, sensors, files, host,
                 ocr_vars>>

\* lines 139-141: self._check_alerts(...), then time.sleep(self.interval)
AfterAlerts(r, st) ==
    LET r2 == [r EXCEPT !.last_alerts = st.last,
                        !.alert_history = st.hist,
                        !.alert_calls = st.calls,
                        !.evaluated = @ + 1]
    IN IF st.raised THEN Raise(r2)
       ELSE [r2 EXCEPT !.pc = "sleep", !.wake = clock + r.interval]

MonAlerts(m) ==
    /\ mon[m].pc = "alerts"
    /\ \E raising \in IF mon[m].alert_raises
                      THEN SUBSET Keys(mon[m].alert_thresholds) ELSE {{}} :
          mon' = [mon EXCEPT ![m] =
                    AfterAlerts(@, check_alerts(@, @.cur, clock, raising))]
    /\ UNCHANGED <<stop_event, pause_event, clock, sensors, files, stop_mark, host,
                 ocr_vars>>

\* lines 142-144: finally: csv_file.close(); close flushes what is buffered
\* and raises when that fails, which skips line 145
MonFinally(m) ==
    /\ mon[m].pc = "finally"
    /\ IF mon[m].csv_file = "open"
       THEN \/ /\ mon' = [mon EXCEPT ![m].csv_file = "closed",
                                     ![m].pending = 0,
                                     ![m].pc = "finalise"]
               /\ files' = [files EXCEPT
                              !.log = IF @ = <<>> THEN <<mon[m].pending>>
                                      ELSE <<@[1] + mon[m].pending>>]
            \/ /\ mon[m].pending > 0
               /\ mon' = [mon EXCEPT ![m].csv_file = "closed",
                                     ![m].exc = TRUE,
                                     ![m].pc = "raised"]
               /\ UNCHANGED files
       ELSE /\ mon' = [mon EXCEPT ![m].pc = "finalise"]
            /\ UNCHANGED files
    /\ UNCHANGED <<stop_event, pause_event, clock, sensors, stop_mark, host,
                 ocr_vars>>

\* line 145: self._finalise_summary(), then run returns or re-raises
MonFinalise(m) ==
    /\ mon[m].pc = "finalise"
    /\ \E sum_ok \in BOOLEAN, alert_ok \in BOOLEAN :
          /\ mon' = [mon EXCEPT ![m] =
                       [finalise_summary(@) EXCEPT
                           !.errors = finalise_errors(mon[m], sum_ok, alert_ok),
                           !.pc = IF mon[m].exc THEN "raised" ELSE "done"]]
          /\ files' = finalise_files(mon[m], files, sum_ok, alert_ok)
    /\ UNCHANGED <<stop_event, pause_event, clock, sensors, stop_mark, host,
                 ocr_vars>>

\* _finalise_summary called once more on a monitor whose run has returned
FinaliseAgain(m) ==
    /\ mon[m].pc = "done"
    /\ mon[m].finalised < MaxCalls
    /\ \E sum_ok \in BOOLEAN, alert_ok \in BOOLEAN :
          /\ mon' = [mon EXCEPT ![m] =
                       [finalise_summary(@) EXCEPT
                           !.errors = finalise_errors(mon[m], sum_ok, alert_ok)]]
          /\ files' = finalise_files(mon[m], files, sum_ok, alert_ok)
    /\ UNCHANGED <<stop_event, pause_event, clock, sensors, stop_mark, host,
                 ocr_vars>>

MonStep(m) ==
    \/ MonStart(m)
    \/ MonPrime(m)
    \/ MonLoop(m)
    \/ MonPauseCheck(m)
    \/ MonWake(m)
    \/ MonSample(m)
    \/ MonLog(m)
    \/ MonUpdate(m)
    \/ MonAlerts(m)
    \/ MonFinally(m)
    \/ MonFinalise(m)

\* ------------------------------------------------------------------ time
Sleeping(m) == mon[m].pc \in {"psleep", "sleep"} /\ mon[m].wake > clock
\* a monitor thread that has a step to take now
Busy(m) == Alive(m) /\ ~Sleeping(m)

\* ------------------------------------------------------------- the signals
\* toggle_monitor(active) of main.py
toggle_monitor(active) ==
    /\ host.main = "loop"
    /\ pause_event' = ~active
    /\ stop_mark' =
          [stop_mark EXCEPT
             !.in_pause = IF active THEN [m \in MonIds |-> FALSE] ELSE @,
             !.paused =
                IF active THEN <<>>
                ELSE IF pause_event THEN @
                ELSE <<[samples |-> [m \in MonIds |-> Len(mon[m].samples)],
                        updates |-> [m \in MonIds |-> Len(mon[m].updates)]]>>]
    /\ UNCHANGED <<mon, stop_event, clock, sensors, files, host,
                 ocr_vars>>

\* a thread other than the monitor sets the stop signal (the caller of a
\* monitor run on its own, as tests/test_resource_monitor.py does)
SetStop ==
    /\ ~stop_event
    /\ stop_event' = TRUE
    /\ stop_mark' = MarkStop
    /\ UNCHANGED <<mon, pause_event, clock, sensors, files, host,
                 ocr_vars>>

\* ------------------------------------------------------- main.py: the host
NoMonitor == 0

HostInit(cfg) ==
    [ cfg        |-> cfg,          \* the AppConfig fields the monitor gets
      show_resource_usage |-> cfg.show_resource_usage,
      main       |-> "loop",       \* Tk main thread: loop | closejoin | destroyed
      processing |-> FALSE,        \* AppGUI._processing
      pc         |-> "idle",       \* position of the start_processing thread
      monitor        |-> NoMonitor,
      monitor_thread |-> NoMonitor,
      closing    |-> FALSE,
      created    |-> 0,            \* ResourceMonitor instances made so far
      cancelled  |-> FALSE,
      had_error  |-> FALSE,
      already_cancelled |-> FALSE,
      summary_text |-> <<>>,
      deadline   |-> 0,            \* when the pending join(timeout) gives up
      close_thread   |-> NoMonitor, \* the thread on_close joins
      close_deadline |-> 0,
      shown      |-> <<>>,         \* the text gui.show_summary displays
      active     |-> 0 ]           \* ghost: start callbacks that have not returned

StartClickedWhileProcessing ==
    /\ host.main = "loop"
    /\ host.created < MaxRuns
    /\ host' = [host EXCEPT !.processing = TRUE, !.pc = "begin",
                            !.active = @ + 1]
    /\ UNCHANGED <<mon, stop_event, pause_event, clock, sensors, files, stop_mark,
                 ocr_vars>>

\* AppGUI._on_start_clicked: ignored while a run is in progress
_on_start_clicked ==
    /\ host.main = "loop"
    /\ ~host.processing
    /\ host.created < MaxRuns
    /\ host' = [host EXCEPT !.processing = TRUE, !.pc = "begin",
                            !.active = @ + 1]
    /\ UNCHANGED <<mon, stop_event, pause_event, clock, sensors, files, stop_mark,
                 ocr_vars>>

\* start_processing lines 41-43
HostBegin ==
    /\ host.pc = "begin"
    /\ stop_event' = FALSE
    /\ pause_event' = FALSE
    /\ host' = [host EXCEPT !.pc = "mkmon", !.shown = <<>>]  \* clear_summary
    /\ UNCHANGED <<mon, clock, sensors, files, stop_mark,
                 ocr_vars>>

\* start_processing lines 45-64: a fresh ResourceMonitor and its thread
HostMakeMonitor ==
    /\ host.pc = "mkmon"
    /\ IF host.show_resource_usage
       THEN LET id == host.created + 1
            IN /\ mon' = [mon EXCEPT ![id] = NewMonitor(host.cfg)]
               /\ host' = [host EXCEPT !.monitor = id, !.monitor_thread = id,
                                       !.created = id, !.pc = "process",
                                       !.had_error = FALSE,
                                       !.cancelled = FALSE]
       ELSE /\ host' = [host EXCEPT !.monitor = NoMonitor,
                                    !.monitor_thread = NoMonitor,
                                    !.pc = "process",
                                    !.had_error = FALSE,
                                    !.cancelled = FALSE]
            /\ UNCHANGED mon
    /\ UNCHANGED <<stop_event, pause_event, clock, sensors, files, stop_mark,
                 ocr_vars>>

\* lines 79-89: processor.process() returns (ok) or raises
HostProcessEnds ==
    /\ host.pc = "process"
    /\ \E ok \in BOOLEAN :
          host' = [host EXCEPT !.pc = "finally",
                               !.cancelled = ok /\ stop_event,
                               !.had_error = ~ok]
    /\ UNCHANGED <<mon, stop_event, pause_event, clock, sensors, files, stop_mark,
                 ocr_vars>>

\* lines 91-95: already_cancelled = stop_event.is_set(); stop_event.set()
HostFinally ==
    /\ host.pc = "finally"
    /\ stop_event' = TRUE
    /\ host' = [host EXCEPT !.already_cancelled = stop_event,
                            !.summary_text = <<>>,
                            !.pc = "join"]
    /\ UNCHANGED <<mon, pause_event, clock, sensors, files, stop_mark,
                 ocr_vars>>

\* lines 96-97: join the monitor thread for at most JoinTimeout seconds
HostJoin ==
    /\ host.pc = "join"
    /\ host' = IF Alive(host.monitor_thread)
               THEN [host EXCEPT !.pc = "joining",
                                 !.deadline = clock + JoinTimeout * host.cfg.hz]
               ELSE [host EXCEPT !.pc = "read"]
    /\ UNCHANGED <<mon, stop_event, pause_event, clock, sensors, files, stop_mark,
                 ocr_vars>>

\* join returns: the thread ended, or the timeout passed
JoinReturns(thread, deadline) == ~Alive(thread) \/ clock >= deadline

HostJoinReturns ==
    /\ host.pc = "joining"
    /\ JoinReturns(host.monitor_thread, host.deadline)
    /\ host' = [host EXCEPT !.pc = "read"]
    /\ UNCHANGED <<mon, stop_event, pause_event, clock, sensors, files, stop_mark,
                 ocr_vars>>

\* lines 98-109: read the monitor's results, drop the references
HostRead ==
    /\ host.pc = "read"
    /\ host' = [host EXCEPT
                  !.summary_text = IF host.monitor # NoMonitor
                                   THEN mon[host.monitor].summary_text
                                   ELSE <<>>,
                  !.monitor_thread = NoMonitor,
                  !.monitor = NoMonitor,
                  !.pc = "tail"]
    /\ UNCHANGED <<mon, stop_event, pause_event, clock, sensors, files, stop_mark,
                 ocr_vars>>

\* start_processing returns: its locals are gone
Returned(h) ==
    [h EXCEPT !.pc = "return", !.active = @ - 1,
              !.cancelled = FALSE, !.had_error = FALSE,
              !.already_cancelled = FALSE, !.summary_text = <<>>,
              !.deadline = 0]

\* lines 110-118: show the summary and clear both signals, unless closing
HostTail ==
    /\ host.pc = "tail"
    /\ IF ~host.closing
       THEN /\ host' = [Returned(host) EXCEPT
                          !.shown = IF host.summary_text # <<>>
                                    THEN host.summary_text
                                    ELSE @]
            /\ stop_event' = FALSE
            /\ pause_event' = FALSE
       ELSE /\ host' = Returned(host)
            /\ UNCHANGED <<stop_event, pause_event>>
    /\ UNCHANGED <<mon, clock, sensors, files, stop_mark,
                 ocr_vars>>

\* AppGUI._run_start_callback's finally and _on_processing_finished
_on_processing_finished ==
    /\ host.pc = "return"
    /\ host.main = "loop"
    /\ host' = [host EXCEPT !.processing = FALSE, !.pc = "idle"]
    /\ UNCHANGED <<mon, stop_event, pause_event, clock, sensors, files, stop_mark,
                 ocr_vars>>

\* on_close lines 137-142: stop, resume, join the monitor thread
on_close ==
    /\ host.main = "loop"
    /\ stop_event' = TRUE
    /\ pause_event' = FALSE
    /\ host' = [host EXCEPT
                  !.closing = TRUE,
                  !.main = "closejoin",
                  !.close_thread = IF Alive(host.monitor_thread)
                                   THEN host.monitor_thread ELSE NoMonitor,
                  !.close_deadline = clock + JoinTimeout * host.cfg.hz]
    /\ UNCHANGED <<mon, clock, sensors, files, stop_mark,
                 ocr_vars>>

\* on_close lines 142-144: the join returns and root.destroy() ends the
\* main loop; the process exits and takes its daemon threads and its memory
\* with it: only the files stay
on_close_destroy ==
    /\ host.main = "closejoin"
    /\ JoinReturns(host.close_thread, host.close_deadline)
    /\ host' = [HostInit(host.cfg) EXCEPT !.main = "destroyed"]
    /\ mon' = [m \in MonIds |-> Unborn]
    /\ stop_event' = FALSE
    /\ pause_event' = FALSE
    /\ UNCHANGED <<clock, sensors, files, stop_mark,
                 ocr_vars>>

\* a ResourceMonitor whose run has ended and which nothing refers to any
\* more is garbage: its fields can no longer be observed
Garbage(m) ==
    /\ mon[m].pc \in {"done", "raised"}
    /\ host.created >= m
    /\ host.monitor # m

Collect(m) ==
    /\ Garbage(m)
    /\ mon' = [mon EXCEPT ![m] = [Unborn EXCEPT !.pc = "collected"]]
    /\ UNCHANGED <<stop_event, pause_event, clock, sensors, files, stop_mark, host,
                 ocr_vars>>

HostBusy ==
    \/ \E m \in MonIds : Garbage(m)
    \/ host.pc \in {"begin", "mkmon", "finally", "join", "read", "tail"}
    \/ host.pc = "return" /\ host.main = "loop"
    \/ host.pc = "joining" /\ JoinReturns(host.monitor_thread, host.deadline)
    \/ host.main = "closejoin"
       /\ JoinReturns(host.close_thread, host.close_deadline)

\* someone is waiting for time to pass
Waiting ==
    \/ \E m \in MonIds : Sleeping(m)
    \/ host.pc \in {"process", "joining"}
    \/ host.main = "closejoin"

\* a second passes: every thread is blocked and one of them waits for it
\* the last instant: a patched cpu_percent gets a second per reading
TimeLimit == IF sensors.script = <<>> THEN MaxTime ELSE Len(sensors.script)

Tick ==
    /\ clock < TimeLimit
    /\ Waiting
    /\ ~HostBusy
    /\ \A m \in MonIds : ~Busy(m)
    /\ clock' = clock + 1
    /\ UNCHANGED <<mon, stop_event, pause_event, sensors, files, stop_mark, host,
                 ocr_vars>>

\* ---------------------------------------------------- llm.py: verify_text
\* text is a sequence of characters; these are the ones str.strip removes
Whitespace == {" ", "\n"}

RECURSIVE LStrip(_)
LStrip(s) == IF s # <<>> /\ Head(s) \in Whitespace THEN LStrip(Tail(s)) ELSE s

RECURSIVE RStrip(_)
RStrip(s) ==
    IF s # <<>> /\ s[Len(s)] \in Whitespace
    THEN RStrip(SubSeq(s, 1, Len(s) - 1)) ELSE s

\* str.strip()
Strip(s) == RStrip(LStrip(s))

\* prompt_template.format(text=text) raises on a replacement field other
\* than {text} (KeyError, IndexError) and on a single brace (ValueError)
FormatRaises(prompt_template) ==
    prompt_template \in {"Correct: {0}", "Correct: {text"}

VerifyTextKeepsBrokenVerifier(text, model_name, prompt_template, v, env) ==
    IF text = <<>> \/ model_name = ""
    THEN [result |-> text, verifier |-> v, loads |-> 0, raised |-> FALSE]
    ELSE IF v = <<>> /\ ~env.load_ok
    THEN [result |-> text, verifier |-> <<"broken">>, loads |-> 1,
          raised |-> FALSE]
    ELSE [result   |-> IF FormatRaises(prompt_template) \/ ~env.gen_ok
                          \/ v = <<"broken">>
                       THEN text ELSE Strip(env.generated),
          verifier |-> IF v = <<>> THEN <<model_name>> ELSE v,
          loads    |-> IF v = <<>> THEN 1 ELSE 0,
          raised   |-> FALSE]

\* verify_text(text, model_name, use_gpu, prompt_template, gpu_index) with
\* _verifier = v; env says whether pipeline() loads the model, whether the
\* generation succeeds and what it generates.  The outcome: the value
\* returned, the new _verifier, the loads attempted, whether it raised
verify_text(text, model_name, prompt_template, v, env) ==
    IF text = <<>> \/ model_name = ""
    THEN [result |-> text, verifier |-> v, loads |-> 0, raised |-> FALSE]
    ELSE IF v = <<>> /\ ~env.load_ok
    THEN [result |-> text, verifier |-> <<>>, loads |-> 1, raised |-> FALSE]
    ELSE [result   |-> IF FormatRaises(prompt_template) \/ ~env.gen_ok
                       THEN text ELSE Strip(env.generated),
          verifier |-> IF v = <<>> THEN <<model_name>> ELSE v,
          loads    |-> IF v = <<>> THEN 1 ELSE 0,
          raised   |-> FALSE]

\* what the language model may generate
Generated == {<<"A", " ">>, <<" ">>}

\* what can happen inside one call of verify_text
LlmEnvs ==
    [load_ok : BOOLEAN, gen_ok : BOOLEAN, generated : Generated]

\* the verify_text calls made so far
CallsMade == IF llm_call = <<>> THEN 0 ELSE llm_call[1].calls

\* the record kept of the verify_text calls: how many, how many loads were
\* attempted, and the last call with its outcome
Called(text, model_name, prompt_template, env, out) ==
    [calls |-> CallsMade + 1,
     text |-> text, model_name |-> model_name,
     prompt_template |-> prompt_template,
     cached |-> verifier # <<>>,
     after_failed_load |-> llm_call # <<>> /\ llm_call[1].loads = 1
                              /\ verifier = <<>>,
     load_ok |-> env.load_ok, gen_ok |-> env.gen_ok,
     result |-> out.result, loads |-> out.loads, raised |-> out.raised]

\* the OCR texts and prompt templates a caller may pass
OcrTexts == {<<>>, <<"a">>, <<"a", "\n", "b">>}

PromptTemplates ==
    {"Correct the OCR text: {text}", "Correct: {0}", "Correct: {text"}

\* a caller hands a text to verify_text
VerifyCall ==
    /\ CallsMade < MaxCalls
    /\ \E text \in OcrTexts, model_name \in {"", "flan"},
          prompt_template \in PromptTemplates, env \in LlmEnvs :
          LET out == verify_text(text, model_name, prompt_template, verifier, env)
          IN /\ verifier' = out.verifier
             /\ llm_call' = <<Called(text, model_name, prompt_template, env, out)>>
    /\ UNCHANGED <<mon, stop_event, pause_event, clock, sensors, files,
                   stop_mark, host, proc, conf>>

\* ------------------------------------------ video_processor.py: process()
\* ocr.extract_text on a frame: the OCR library reads frame.raw and the
\* result is stripped (lines 134, 144); frame.fails = the library raises
extract_text(frame) == Strip(frame.raw)

FrameTextDespiteFailure(frame) == extract_text(frame)

\* lines 61-65: try: text = extract_text(frame) / except Exception: text = ""
FrameText(frame) == IF frame.fails THEN <<>> ELSE extract_text(frame)

\* line 47: total_frames = max(int(cap.get(CAP_PROP_FRAME_COUNT)) or 1, 1)
TotalFrames(count) == Max(IF count = 0 THEN 1 ELSE count, 1)

\* line 77: progress = min(100.0, (frame_idx / total_frames) * 100), in
\* whole percent
Progress(frame_idx, total_frames) == Min(100, (frame_idx * 100) \div total_frames)

\* line 77 without rounding: progress / 100 as the fraction
\* <<numerator, denominator>>
ProgressRatio(frame_idx, total_frames) ==
    <<Min(frame_idx, total_frames), total_frames>>

EtaUnclamped(frame_idx, total_frames, elapsed) ==
    IF elapsed > 0
    THEN ((total_frames - frame_idx) * elapsed) \div frame_idx
    ELSE 0

\* lines 78-80: the ETA in whole seconds from the seconds elapsed, which are
\* negative when the wall clock was set back
Eta(frame_idx, total_frames, elapsed) ==
    IF elapsed > 0
    THEN Max(0, ((total_frames - frame_idx) * elapsed) \div frame_idx)
    ELSE 0

\* VideoProcessor(config, update_callback, stop_event) for a video file:
\* video = [opened, reported, frames]
NewProcessor(video, cfg) ==
    [ pc          |-> "start",
      llm_model   |-> cfg.llm_model,
      prompt_template |-> cfg.prompt_template,
      opened      |-> video.opened,      \* cap.isOpened()
      reported    |-> video.reported,    \* cap.get(CAP_PROP_FRAME_COUNT)
      frames      |-> video.frames,      \* what cap.read() yields, in order
      total_frames |-> 0,
      frame_idx   |-> 0,
      cancelled   |-> FALSE,
      elapsed     |-> 0,                 \* time.time() - start_time
      texts       |-> <<>>,              \* ghost: the OCR text of each frame read
      cleaned     |-> <<>>,              \* ghost: what verify_text returned
      updates     |-> <<>>,              \* ghost: the update_callback calls
      stop_seen   |-> FALSE,             \* ghost: stop_event was found set
      released    |-> FALSE ]            \* ghost: cap.release() was called

\* lines 30-54: set up, open the capture and the output file
ProcStart ==
    /\ proc.pc = "start"
    /\ IF ~proc.opened
       THEN /\ proc' = [proc EXCEPT !.pc = "raised"]    \* FileNotFoundError
            /\ UNCHANGED files
       ELSE /\ proc' = [proc EXCEPT !.total_frames = TotalFrames(proc.reported),
                                    !.pc = "loop"]
            /\ files' = [files EXCEPT !.output = <<<<>>>>]
    /\ UNCHANGED <<mon, stop_event, pause_event, clock, sensors, stop_mark,
                   host, verifier, llm_call, conf>>

\* line 55 and its else clause at 88-89
ProcLoop ==
    /\ proc.pc = "loop"
    /\ proc' = IF stop_event
               THEN [proc EXCEPT !.cancelled = TRUE, !.stop_seen = TRUE,
                                 !.pc = "release"]
               ELSE [proc EXCEPT !.pc = "read"]
    /\ UNCHANGED <<mon, stop_event, pause_event, clock, sensors, files,
                   stop_mark, host, verifier, llm_call, conf>>

\* lines 56-58: cap.read() at the end of the video
ProcEndOfVideo ==
    /\ proc.pc = "read"
    /\ proc.frame_idx >= Len(proc.frames)
    /\ proc' = [proc EXCEPT !.pc = "release"]
    /\ UNCHANGED <<mon, stop_event, pause_event, clock, sensors, files,
                   stop_mark, host, verifier, llm_call, conf>>

\* lines 74-75: handle.write(cleaned + "\n"); handle.flush()
FrameWritten(content, cleaned) == content \o cleaned \o <<"\n">>

\* lines 56-82: one frame is read, recognised, cleaned, written and shown
ProcFrame ==
    /\ proc.pc = "read"
    /\ proc.frame_idx < Len(proc.frames)
    /\ \E env \in LlmEnvs,
          now \in {proc.elapsed, Min(proc.elapsed + 1, MaxElapsed),
                   Max(proc.elapsed - 1, -MaxElapsed)} :
          LET frame_idx == proc.frame_idx + 1
              frame == proc.frames[frame_idx]
              text  == FrameText(frame)
              out   == verify_text(text, proc.llm_model, proc.prompt_template,
                                   verifier, env)
              shown == [frame    |-> frame_idx,
                        progress |-> Progress(frame_idx, proc.total_frames),
                        ratio    |-> ProgressRatio(frame_idx, proc.total_frames),
                        eta      |-> Eta(frame_idx, proc.total_frames, now)]
          IN /\ proc' = [proc EXCEPT
                           !.frame_idx = frame_idx,
                           !.elapsed = now,
                           !.texts = Append(@, text),
                           !.cleaned = IF text # <<>> THEN Append(@, out.result)
                                       ELSE @,
                           !.updates = Append(@, shown),
                           !.pc = "check"]
             /\ IF text # <<>>
                THEN /\ files' = [files EXCEPT
                                    !.output = <<FrameWritten(@[1], out.result)>>]
                     /\ verifier' = out.verifier
                     /\ llm_call' = <<Called(text, proc.llm_model,
                                             proc.prompt_template, env, out)>>
                ELSE UNCHANGED <<files, verifier, llm_call>>
    /\ UNCHANGED <<mon, stop_event, pause_event, clock, sensors, stop_mark,
                   host, conf>>

\* lines 84-86: if self.stop_event.is_set(): cancelled = True; break
ProcCheck ==
    /\ proc.pc = "check"
    /\ proc' = IF stop_event
               THEN [proc EXCEPT !.cancelled = TRUE, !.stop_seen = TRUE,
                                 !.pc = "release"]
               ELSE [proc EXCEPT !.pc = "loop"]
    /\ UNCHANGED <<mon, stop_event, pause_event, clock, sensors, files,
                   stop_mark, host, verifier, llm_call, conf>>

FinalUpdateNever(cancelled, stop) == FALSE

FinalUpdateAlways(cancelled, stop) == TRUE

\* line 93: if not cancelled and not self.stop_event.is_set()
FinalUpdateDue(cancelled, stop) == ~cancelled /\ ~stop

\* lines 91-98: cap.release() and the final 100% update
ProcRelease ==
    /\ proc.pc = "release"
    /\ proc' = [proc EXCEPT
                  !.updates = IF FinalUpdateDue(proc.cancelled, stop_event)
                              THEN Append(@, [frame |-> None, progress |-> 100,
                                              ratio |-> <<1, 1>>, eta |-> 0])
                              ELSE @,
                  !.stop_seen = @ \/ stop_event,
                  !.released = TRUE,
                  !.pc = "done"]
    /\ UNCHANGED <<mon, stop_event, pause_event, clock, sensors, files,
                   stop_mark, host, verifier, llm_call, conf>>

ProcStep ==
    \/ ProcStart
    \/ ProcLoop
    \/ ProcEndOfVideo
    \/ ProcFrame
    \/ ProcCheck
    \/ ProcRelease

\* ------------------------------------------------------------ config.py
\* the language names a configuration may list or key
Languages == {"En", "ja", "JA", "fr"}

\* a mapping with no key
EmptyMap == <<>>

\* dict[key] = value
Put(f, key, value) ==
    [k \in DOMAIN f \cup {key} |-> IF k = key THEN value ELSE f[k]]

\* the option names _normalise_preprocessing recognises (lines 107-131)
BoolOptions ==
    {"grayscale", "apply_to_easyocr", "use_adaptive_threshold",
     "use_otsu_threshold"}

IntOptions ==
    {"bilateral_diameter", "bilateral_sigma_color", "bilateral_sigma_space",
     "adaptive_threshold_block_size", "clahe_tile_grid_size"}

FloatOptions ==
    {"clahe_clip_limit", "adaptive_threshold_c", "resize_scale",
     "sharpen_amount"}

\* lines 105-131: the recognised options of one entry whose value converts
\* (a null number raises TypeError and is skipped)
NormOptions(value) ==
    LET kept == {o \in DOMAIN value :
                    \/ Lower(o) \in BoolOptions
                    \/ Lower(o) \in IntOptions \cup FloatOptions
                       /\ value[o] # None}
    IN [o \in {Lower(k) : k \in kept} |->
           value[CHOOSE k \in kept : Lower(k) = o]]

\* _normalise_preprocessing on the YAML mapping, a sequence of
\* [key, mapping, options] in file order, from entry number i on
RECURSIVE NormEntries(_, _)
NormEntries(raw, normalised) ==
    IF raw = <<>> THEN normalised
    ELSE LET entry   == Head(raw)
             options == IF entry.mapping THEN NormOptions(entry.options)
                        ELSE EmptyMap
         IN NormEntries(Tail(raw),
                        IF entry.mapping /\ options # EmptyMap
                        THEN Put(normalised, Lower(entry.key), options)
                        ELSE normalised)

_normalise_preprocessing(raw) == NormEntries(raw, EmptyMap)

RECURSIVE PreprocessingForExactKey(_, _)
PreprocessingForExactKey(ocr_preprocessing, languages) ==
    IF DOMAIN ocr_preprocessing = {} THEN EmptyMap
    ELSE IF languages = <<>>
    THEN IF "default" \in DOMAIN ocr_preprocessing
         THEN ocr_preprocessing["default"] ELSE EmptyMap
    ELSE IF Head(languages) \in DOMAIN ocr_preprocessing
    THEN ocr_preprocessing[Head(languages)]
    ELSE PreprocessingForExactKey(ocr_preprocessing, Tail(languages))

\* AppConfig.preprocessing_for(languages)
RECURSIVE preprocessing_for(_, _)
preprocessing_for(ocr_preprocessing, languages) ==
    IF DOMAIN ocr_preprocessing = {} THEN EmptyMap
    ELSE IF languages = <<>>
    THEN IF "default" \in DOMAIN ocr_preprocessing
         THEN ocr_preprocessing["default"] ELSE EmptyMap
    ELSE IF Lower(Head(languages)) \in DOMAIN ocr_preprocessing
    THEN ocr_preprocessing[Lower(Head(languages))]
    ELSE preprocessing_for(ocr_preprocessing, Tail(languages))

\* load_config (line 177) on a YAML file whose ocr_preprocessing is raw
LoadedConfig(raw) ==
    [raw |-> raw,
     ocr_preprocessing |-> _normalise_preprocessing(raw),
     asked |-> FALSE, languages |-> <<>>, result |-> EmptyMap]

\* config.preprocessing_for(languages) is called, as process() does at line
\* 35 of video_processor.py
PreprocessingCall ==
    /\ conf # <<>>
    /\ \E n \in 0 .. MaxLangs : \E languages \in [1 .. n -> Languages] :
          conf' = [conf EXCEPT
                     !.asked = TRUE,
                     !.languages = languages,
                     !.result = preprocessing_for(conf.ocr_preprocessing,
                                                  languages)]
    /\ UNCHANGED <<mon, stop_event, pause_event, clock, sensors, files,
                   stop_mark, host, proc, verifier, llm_call>>

\* ------------------------------------------------- a monitor run on its own
BaseCfg ==
    [interval |-> 1, gpu_index |-> <<>>, log_path |-> FALSE,
     alert_thresholds |-> <<>>, alert_callback |-> TRUE, alert_cooldown |-> 0,
     summary_path |-> FALSE, alert_log_path |-> FALSE, trend_window |-> 10,
     update_raises |-> FALSE, alert_raises |-> FALSE, stop_after |-> 0,
     show_resource_usage |-> TRUE,
     hz |-> 1,                  \* durations are written in whole seconds
     yaml_interval |-> <<1>>,   \* monitor_interval as config.yaml has it
     yaml_cooldown |-> <<0>>,   \* alert_cooldown_seconds as config.yaml has it
     yaml_trend_window |-> <<10>>]  \* analytics_trend_window likewise


\* the constructor arguments the runs are checked with
Configs ==
    { \* the configuration of tests/test_resource_monitor.py
      [BaseCfg EXCEPT !.alert_thresholds = <<<<"cpu", 20>>>>,
                      !.log_path = TRUE, !.summary_path = TRUE,
                      !.alert_log_path = TRUE],
      \* two thresholds under a cooldown, the second GPU selected
      [BaseCfg EXCEPT !.alert_thresholds = <<<<"cpu", 20>>, <<"gpu", 60>>>>,
                      !.alert_cooldown = 2, !.gpu_index = <<1>>,
                      !.summary_path = TRUE, !.alert_log_path = TRUE],
      \* a slow monitor; mixed-case, null and unknown threshold keys
      [BaseCfg EXCEPT !.interval = 3,
                      !.alert_thresholds = <<<<"CPU", 20>>, <<"ram", None>>,
                                             <<"disk", 5>>>>,
                      !.alert_cooldown = 4, !.gpu_index = <<5>>,
                      !.log_path = TRUE],
      \* thresholds but no alert callback, a negative cooldown
      [BaseCfg EXCEPT !.alert_thresholds = <<<<"cpu", 20>>>>,
                      !.alert_callback = FALSE, !.alert_cooldown = -3,
                      !.summary_path = TRUE, !.alert_log_path = TRUE] }

NoFiles == [log |-> <<>>, summary |-> <<>>, alerts |-> <<>>, output |-> <<>>]

Init ==
    /\ \E cfg \in Configs :
          mon = [m \in MonIds |->
                   IF m = 1
                   THEN NewMonitor([cfg EXCEPT !.update_raises = TRUE,
                                               !.alert_raises = TRUE])
                   ELSE Unborn]
    /\ stop_event = FALSE
    /\ pause_event = FALSE
    /\ clock = 0
    /\ sensors = [cpu |-> CpuValues, lib |-> TRUE, gpus |-> GpuLists,
                  faulty |-> TRUE, script |-> <<>>, count |-> 0]
    /\ files = NoFiles
    /\ NoPipeline
    /\ stop_mark = NoMark
    /\ host = HostInit(BaseCfg)

Next ==
    \/ MonStep(1)
    \/ SetStop
    \/ \E active \in BOOLEAN : toggle_monitor(active)
    \/ Tick

Spec == Init /\ [][Next]_vars

\* The same run where the monitor thread is scheduled and time passes.  The
\* machine is steady and has no GPU library, so that runs differ in their
\* signals, timing and failures only.
FairConfigs ==
    { [BaseCfg EXCEPT !.alert_thresholds = <<<<"cpu", 20>>>>,
                      !.log_path = TRUE, !.summary_path = TRUE,
                      !.update_raises = TRUE, !.alert_raises = TRUE],
      [BaseCfg EXCEPT !.interval = 3, !.update_raises = TRUE] }

FairInit ==
    /\ \E cfg \in FairConfigs :
          mon = [m \in MonIds |-> IF m = 1 THEN NewMonitor(cfg) ELSE Unborn]
    /\ stop_event = FALSE
    /\ pause_event = FALSE
    /\ clock = 0
    /\ sensors = [cpu |-> {30}, lib |-> FALSE, gpus |-> GpuLists,
                  faulty |-> TRUE, script |-> <<>>, count |-> 0]
    /\ files = NoFiles
    /\ NoPipeline
    /\ stop_mark = NoMark
    /\ host = HostInit(BaseCfg)

FairSpec ==
    FairInit /\ [][Next]_vars /\ WF_vars(MonStep(1)) /\ WF_vars(Tick)

\* ------------------------------------------------------- the whole program
\* the monitor settings of config.yaml the host is checked with
HostConfigs ==
    { [BaseCfg EXCEPT !.alert_thresholds = <<<<"cpu", 20>>>>,
                      !.summary_path = TRUE, !.alert_log_path = TRUE],
      \* an interval longer than the join timeout
      [BaseCfg EXCEPT !.interval = 3, !.summary_path = TRUE],
      [BaseCfg EXCEPT !.show_resource_usage = FALSE] }

HostSpecInit ==
    /\ mon = [m \in MonIds |-> Unborn]
    /\ stop_event = FALSE
    /\ pause_event = FALSE
    /\ clock = 0
    /\ sensors = [cpu |-> {30}, lib |-> FALSE, gpus |-> GpuLists,
                  faulty |-> FALSE, script |-> <<>>, count |-> 0]
    /\ files = NoFiles
    /\ NoPipeline
    /\ stop_mark = NoMark
    /\ \E cfg \in HostConfigs : host = HostInit(cfg)

HostStep ==
    \/ _on_start_clicked
    \/ HostBegin
    \/ HostMakeMonitor
    \/ HostProcessEnds
    \/ HostFinally
    \/ HostJoin
    \/ HostJoinReturns
    \/ HostRead
    \/ HostTail
    \/ _on_processing_finished
    \/ on_close
    \/ on_close_destroy

\* once the window is destroyed nothing is left to run
HostNext ==
    \/ HostStep
    \/ \E m \in MonIds : MonStep(m)
    \/ \E m \in MonIds : Collect(m)
    \/ \E active \in BOOLEAN : toggle_monitor(active)
    \/ Tick

HostSpec == HostSpecInit /\ [][HostNext]_vars

\* ------------------------------------------------- the five-tick scenario
\* The set-up of tests/test_resource_monitor.py: cpu_percent patched to serve
\* a fixed sequence (its first call is the priming call of line 103),
\* RAM 40, get_gpu_usage constant 50/55, threshold cpu 20 with cooldown 0,
\* and an update callback that sets stop once it has seen every reading.
ScenarioCpu == <<10, 25, 60, 45, 30>>

ScenarioCfg ==
    [BaseCfg EXCEPT !.alert_thresholds = <<<<"cpu", 20>>>>,
                    !.alert_cooldown = 0,
                    !.log_path = TRUE, !.summary_path = TRUE,
                    !.alert_log_path = TRUE,
                    !.stop_after = Len(ScenarioCpu)]

ScenarioInit ==
    /\ mon = [m \in MonIds |-> IF m = 1 THEN NewMonitor(ScenarioCfg) ELSE Unborn]
    /\ stop_event = FALSE
    /\ pause_event = FALSE
    /\ clock = 0
    /\ sensors = [cpu |-> {}, lib |-> TRUE, gpus |-> {GpuList},
                  faulty |-> FALSE,
                  script |-> <<Head(ScenarioCpu)>> \o ScenarioCpu, count |-> 0]
    /\ files = NoFiles
    /\ NoPipeline
    /\ stop_mark = NoMark
    /\ host = HostInit(BaseCfg)

ScenarioSpec == ScenarioInit /\ [][Next]_vars

\* ------------------------------------------------- the monitoring interval
\* The clock ticks ten times a second here.  monitor_interval as config.yaml
\* may have it: missing or not a number, negative, zero, 0.1 s, 0.2 s.
YamlIntervals == {<<>>, <<-10>>, <<0>>, <<1>>, <<2>>}

\* the monitor is built by the host from the loaded configuration, or
\* directly with the value as written, as the tests build it
IntervalInit ==
    /\ \E y \in YamlIntervals, loaded \in BOOLEAN :
          LET cfg == [BaseCfg EXCEPT
                        !.hz = 10,
                        !.yaml_interval = y,
                        !.interval = IF loaded \/ y = <<>>
                                     THEN load_interval(y, 10) ELSE y[1],
                        !.trend_window = 100]
          IN /\ mon = [m \in MonIds |-> IF m = 1 THEN NewMonitor(cfg) ELSE Unborn]
             /\ host = HostInit(cfg)
    /\ stop_event = FALSE
    /\ pause_event = FALSE
    /\ clock = 0
    /\ sensors = [cpu |-> {30}, lib |-> FALSE, gpus |-> GpuLists,
                  faulty |-> FALSE, script |-> <<>>, count |-> 0]
    /\ files = NoFiles
    /\ NoPipeline
    /\ stop_mark = NoMark

IntervalSpec == IntervalInit /\ [][Next]_vars

\* --------------------------------------------- the loaded configuration
\* The clock ticks ten times a second.  What config.yaml may say: a cooldown
\* missing, 0, 0.5 s, 1 s; a trend window missing, 5 s, 10 s, 15 s; an
\* interval of 0.1 s or 0.2 s.
YamlCooldowns == {<<>>, <<0>>, <<5>>, <<10>>}

YamlTrendWindows == {<<>>, <<50>>, <<100>>, <<150>>}

\* main(): load_config, then start_processing hands the loaded values to
\* ResourceMonitor (main.py lines 46-59)
LoadedInit ==
    /\ \E yc \in YamlCooldowns, yw \in YamlTrendWindows, yi \in {<<1>>, <<2>>} :
          LET cfg == [BaseCfg EXCEPT
                        !.hz = 10,
                        !.alert_thresholds = <<<<"cpu", 20>>>>,
                        !.yaml_interval = yi,
                        !.yaml_cooldown = yc,
                        !.yaml_trend_window = yw,
                        !.interval = load_interval(yi, 10),
                        !.alert_cooldown = load_cooldown(yc, 10),
                        !.trend_window = load_trend_window(yw, 10)]
          IN /\ mon = [m \in MonIds |-> IF m = 1 THEN NewMonitor(cfg) ELSE Unborn]
             /\ host = HostInit(cfg)
    /\ stop_event = FALSE
    /\ pause_event = FALSE
    /\ clock = 0
    /\ sensors = [cpu |-> {10, 30}, lib |-> FALSE, gpus |-> GpuLists,
                  faulty |-> FALSE, script |-> <<>>, count |-> 0]
    /\ files = NoFiles
    /\ NoPipeline
    /\ stop_mark = NoMark

LoadedSpec == LoadedInit /\ [][Next]_vars

\* ------------------------------------------------------ the GPU selection
\* Machines with one to MaxGpus devices of different load, and every
\* preferred index around that range; the run takes a single sample.
Device(k) == [load |-> 10 * k, mem |-> 10 * k + 5]
Machines  == {[k \in 1 .. n |-> Device(k)] : n \in 1 .. MaxGpus}
GpuIndexes == {<<>>} \cup {<<i>> : i \in -(MaxGpus + 1) .. (MaxGpus + 1)}

GpuInit ==
    /\ \E gpu_index \in GpuIndexes :
          mon = [m \in MonIds |->
                   IF m = 1
                   THEN NewMonitor([BaseCfg EXCEPT !.gpu_index = gpu_index,
                                                   !.stop_after = 1])
                   ELSE Unborn]
    /\ \E gpus \in Machines :
          sensors = [cpu |-> {30}, lib |-> TRUE, gpus |-> {gpus},
                     faulty |-> FALSE, script |-> <<>>, count |-> 0]
    /\ stop_event = FALSE
    /\ pause_event = FALSE
    /\ clock = 0
    /\ files = NoFiles
    /\ NoPipeline
    /\ stop_mark = NoMark
    /\ host = HostInit(BaseCfg)

GpuSpec == GpuInit /\ [][Next]_vars

\* ------------------------------------------- finalize on a recorded history
\* Runs that have left the loop with their history recorded: 4 s ticks with
\* iterations skipped while paused, so that the first samples of a run may
\* be older than the trend window.
HistoryTimes   == {0, 4, 11, 13}
HistorySamples ==
    {[cpu |-> c, ram |-> 40, gpu |-> g[1], vram |-> g[2]] :
        c \in CpuValues, g \in {<<NaN, NaN>>, <<50, 55>>}}

Histories ==
    UNION {{h \in [1 .. n -> HistorySamples \X HistoryTimes] :
               \A i \in 1 .. n - 1 : h[i][2] < h[i + 1][2]} :
           n \in 0 .. MaxStored}

FinaliseConfigs ==
    {[BaseCfg EXCEPT !.interval = 4, !.alert_thresholds = <<<<"cpu", 20>>>>,
                     !.summary_path = TRUE, !.alert_log_path = TRUE,
                     !.trend_window = w] : w \in {5, 12}}

\* the monitor built from cfg after the ticks of history h, at line 145
Recorded(cfg, h) ==
    LET n      == Len(h)
        events == SelectSeq([i \in 1 .. n |->
                                [at |-> h[i][2], metric |-> "CPU",
                                 value |-> h[i][1].cpu]],
                            LAMBDA e : e.value >= 20)
    IN [NewMonitor(cfg) EXCEPT
          !.samples = [i \in 1 .. n |-> h[i][1]],
          !.sample_times = [i \in 1 .. n |-> h[i][2]],
          !.alert_history = events,
          !.last_alerts = [NoLast EXCEPT
                             !["cpu"] = IF events = <<>> THEN None
                                        ELSE events[Len(events)].at],
          !.alert_calls = [i \in 1 .. Len(events) |->
                              [metric |-> "cpu", value |-> events[i].value,
                               raised |-> FALSE]],
          !.updates = [i \in 1 .. n |->
                          [cpu |-> h[i][1].cpu, ram |-> h[i][1].ram,
                           gpu |-> IF _is_nan(h[i][1].gpu) THEN None
                                   ELSE h[i][1].gpu,
                           vram |-> IF _is_nan(h[i][1].vram) THEN None
                                    ELSE h[i][1].vram]],
          !.evaluated = n,
          !.looped = TRUE,
          !.pc = "finalise"]

FinaliseInit ==
    /\ \E cfg \in FinaliseConfigs, h \in Histories :
          /\ mon = [m \in MonIds |-> IF m = 1 THEN Recorded(cfg, h) ELSE Unborn]
          /\ clock = IF h = <<>> THEN 0 ELSE h[Len(h)][2]
    /\ stop_event = TRUE
    /\ pause_event = FALSE
    /\ sensors = [cpu |-> CpuValues, lib |-> TRUE, gpus |-> GpuLists,
                  faulty |-> FALSE, script |-> <<>>, count |-> 0]
    /\ files = NoFiles
    /\ NoPipeline
    /\ stop_mark = NoMark
    /\ host = HostInit(BaseCfg)

FinaliseNext == MonFinalise(1) \/ FinaliseAgain(1)

FinaliseSpec == FinaliseInit /\ [][FinaliseNext]_vars

\* ------------------------------------------------ a video run on its own
\* what the OCR library may read off a frame, before stripping
RawOcr == {<<>>, <<"a", "\n">>, <<"a", "\n", "b", "\n">>}

Frames ==
    {[raw |-> r, fails |-> FALSE] : r \in RawOcr}
       \cup {[raw |-> <<"a", "\n">>, fails |-> TRUE]}

\* the video files: the frames cap.read() yields and the frame count the
\* container reports, which may be 0, negative or wrong
Videos ==
    UNION {[opened : BOOLEAN,
            reported : {-1, 0, 1, n + 1},
            frames : [1 .. n -> Frames]] : n \in 0 .. MaxFrames}

VideoConfigs ==
    [llm_model : {"", "flan"},
     prompt_template : {"Correct the OCR text: {text}"}]

\* the output file before the run: absent, or left by an earlier run
OldOutputs == {<<>>, <<<<"o", "\n">>>>}

VideoInit ==
    /\ mon = [m \in MonIds |-> Unborn]
    /\ stop_event = FALSE
    /\ pause_event = FALSE
    /\ clock = 0
    /\ sensors = [cpu |-> CpuValues, lib |-> TRUE, gpus |-> GpuLists,
                  faulty |-> FALSE, script |-> <<>>, count |-> 0]
    /\ \E output \in OldOutputs : files = [NoFiles EXCEPT !.output = output]
    /\ stop_mark = NoMark
    /\ host = HostInit(BaseCfg)
    /\ \E video \in Videos, cfg \in VideoConfigs :
          proc = NewProcessor(video, cfg)
    /\ verifier = <<>>
    /\ llm_call = <<>>
    /\ conf = <<>>

VideoNext ==
    \/ ProcStep
    \/ SetStop

VideoSpec == VideoInit /\ [][VideoNext]_vars

\* ------------------------------------------------ verify_text on its own
LlmInit ==
    /\ mon = [m \in MonIds |-> Unborn]
    /\ stop_event = FALSE
    /\ pause_event = FALSE
    /\ clock = 0
    /\ sensors = [cpu |-> CpuValues, lib |-> TRUE, gpus |-> GpuLists,
                  faulty |-> FALSE, script |-> <<>>, count |-> 0]
    /\ files = NoFiles
    /\ stop_mark = NoMark
    /\ host = HostInit(BaseCfg)
    /\ proc = [pc |-> "idle"]
    /\ verifier = <<>>
    /\ llm_call = <<>>
    /\ conf = <<>>

LlmSpec == LlmInit /\ [][VerifyCall]_vars

\* ------------------------------------------ preprocessing_for on its own
\* the entries a YAML file may hold under ocr_preprocessing
RawOptions ==
    {[resize_scale |-> 14, use_otsu_threshold |-> FALSE],
     [apply_to_easyocr |-> TRUE],
     [resize_scale |-> None, shade |-> 1]}

RawEntries ==
    [key : {"Default", "ja", "JA"}, mapping : {TRUE}, options : RawOptions]
       \cup {[key |-> "ja", mapping |-> FALSE, options |-> EmptyMap]}

RawPreprocessings ==
    UNION {[1 .. n -> RawEntries] : n \in 0 .. MaxEntries}

ConfigInit ==
    /\ mon = [m \in MonIds |-> Unborn]
    /\ stop_event = FALSE
    /\ pause_event = FALSE
    /\ clock = 0
    /\ sensors = [cpu |-> CpuValues, lib |-> TRUE, gpus |-> GpuLists,
                  faulty |-> FALSE, script |-> <<>>, count |-> 0]
    /\ files = NoFiles
    /\ stop_mark = NoMark
    /\ host = HostInit(BaseCfg)
    /\ proc = [pc |-> "idle"]
    /\ verifier = <<>>
    /\ llm_call = <<>>
    /\ \E raw \in RawPreprocessings : conf = LoadedConfig(raw)

ConfigSpec == ConfigInit /\ [][PreprocessingCall]_vars

\* ================================================================ claims
RunEnded(m) == mon[m].pc \in {"done", "raised"}   \* run has returned or raised

\* what a tick leaves behind: stores, callbacks, log rows
Observed(r) ==
    <<r.samples, r.sample_times, r.alert_history, r.last_alerts,
      r.updates, r.alert_calls, r.log_rows, r.evaluated>>

\* the update callback's arguments for a stored sample
Reading(sample) ==
    [cpu  |-> sample.cpu,
     ram  |-> sample.ram,
     gpu  |-> IF _is_nan(sample.gpu) THEN None ELSE sample.gpu,
     vram |-> IF _is_nan(sample.vram) THEN None ELSE sample.vram]

\* C1: every run that reached the sampling loop has, once it has returned or
\* raised, executed _finalise_summary exactly once, on the samples stored so
\* far, whether the loop ended by the stop signal or by an exception in a tick.
C1_FinaliseExactlyOnce ==
    \A m \in MonIds :
        /\ mon[m].finalised <= 1
        /\ (RunEnded(m) /\ mon[m].looped) =>
              /\ mon[m].finalised = 1
              /\ mon[m].samples # <<>> =>
                    mon[m].summary_data = <<SummaryOf(mon[m].samples)>>

\* C2: two alert events of one metric are never less than alert_cooldown
\* apart, and the alert callback is called for recorded events only, however
\* many consecutive samples exceed the threshold.
C2_AlertsCooldownApart ==
    \A m \in MonIds :
        LET h == mon[m].alert_history
        IN /\ \A i, j \in 1 .. Len(h) :
                 (i < j /\ h[i].metric = h[j].metric) =>
                     h[j].at - h[i].at >= mon[m].alert_cooldown
           /\ Len(mon[m].alert_calls) = Len(h)

\* two samples at or above the cpu threshold, the second evaluated inside the
\* cooldown of the first: one cpu alert only
C2_Witness ==
    \E m \in MonIds :
        /\ mon[m].alert_cooldown > 0
        /\ mon[m].evaluated = 2
        /\ mon[m].samples[1].cpu >= 20 /\ mon[m].samples[2].cpu >= 20
        /\ mon[m].sample_times[2] - mon[m].sample_times[1] < mon[m].alert_cooldown
        /\ Len(SelectSeq(mon[m].alert_history, LAMBDA e : e.metric = "CPU")) = 1

\* the keys of monitor record r that have a threshold and a present value
Evaluable(r) ==
    {k \in Keys(r.alert_thresholds) : MetricValue(r.cur, k) # None}

ThresholdOf(r, key) ==
    r.alert_thresholds[KeyPos(r.alert_thresholds, key, 1)][2]

\* value >= threshold and (no prior alert or now - lastAlert >= cooldown)
Qualifies(r, key, now) ==
    /\ MetricValue(r.cur, key) >= ThresholdOf(r, key)
    /\ \/ r.last_alerts[key] = None
       \/ now - r.last_alerts[key] >= r.alert_cooldown

EventsFor(hist, key) == SelectSeq(hist, LAMBDA e : e.metric = Upper(key))

\* C3: on every running tick, for each metric with a threshold and a present
\* value, _check_alerts appends exactly one AlertEvent and sets
\* lastAlert[metric] = now if and only if value >= threshold and there is no
\* prior alert or the cooldown has elapsed; otherwise it appends none.
C3_AlertIffQualifies ==
    [][\A m \in MonIds :
          (mon[m].pc = "alerts" /\ mon'[m].pc # "alerts") =>
             \A key \in Evaluable(mon[m]) :
                IF Qualifies(mon[m], key, clock)
                THEN /\ Len(EventsFor(mon'[m].alert_history, key))
                          = Len(EventsFor(mon[m].alert_history, key)) + 1
                     /\ mon'[m].last_alerts[key] = clock
                ELSE /\ Len(EventsFor(mon'[m].alert_history, key))
                          = Len(EventsFor(mon[m].alert_history, key))
                     /\ mon'[m].last_alerts[key] = mon[m].last_alerts[key]]_vars

\* a monitor in an iteration that has observed, or is about to observe, the
\* pause signal set
InPausedIteration(m) ==
    \/ mon[m].pc = "pausechk" /\ pause_event
    \/ mon[m].pc = "psleep"

\* C4: an iteration that observes the pause signal set takes no sample,
\* appends nothing to the stores, writes no log row and makes no callback, and
\* only sleeps before the next stop check; any step appends at most one
\* sample, so a resumed monitor does not catch up on the paused period.
C4_PausedIterationIdle ==
    [][\A m \in MonIds :
          /\ InPausedIteration(m) =>
                /\ Observed(mon'[m]) = Observed(mon[m])
                /\ mon'[m].pc \in {"pausechk", "psleep", "loop"}
                /\ files' = files
          /\ Len(mon'[m].samples) <= Len(mon[m].samples) + 1]_vars

\* a monitor that slept through at least one paused iteration between its
\* first and its second sample
C4_Witness ==
    \E m \in MonIds :
        /\ Len(mon[m].samples) = 2
        /\ mon[m].sample_times[2] - mon[m].sample_times[1] >= 2 * mon[m].interval
        /\ Len(mon[m].updates) = 2

\* the model's bounds keep monitor m from going on
Halted(m) ==
    \/ clock = MaxTime
    \/ mon[m].pc = "sample" /\ Len(mon[m].samples) >= MaxSamples

\* C5: once stop is set and stays set, a monitor, running or paused, stores
\* at most the sample of the tick in flight, leaves the loop at its next stop
\* check, is gone within one interval, and does terminate.
C5_StopEndsRun ==
    /\ [](stop_event =>
            \A m \in MonIds :
               /\ Len(mon[m].samples) <= stop_mark.lens[m] + 1
               /\ Alive(m) => clock <= stop_mark.time + mon[m].interval)
    /\ [][\A m \in MonIds :
             (stop_event /\ stop_event' /\ mon[m].pc = "loop"
                 /\ mon'[m].pc # "loop") => mon'[m].pc = "finally"]_vars
    /\ (stop_event /\ Alive(1)) ~> (~Alive(1) \/ Halted(1))

\* stop was set while a tick was in flight; the tick completed and the run
\* ended
C5_Witness ==
    \E m \in MonIds :
        /\ stop_event
        /\ mon[m].pc = "done"
        /\ Len(mon[m].samples) = stop_mark.lens[m] + 1
        /\ mon[m].evaluated = Len(mon[m].samples)

\* C6: after run has ended, summary_text and summary_data are set if and only
\* if at least one sample was stored; a run without samples made no callback
\* and wrote no summary and no alert-history file.
C6_SummaryIffSamples ==
    \A m \in MonIds :
        RunEnded(m) =>
           /\ (mon[m].summary_text # <<>> /\ mon[m].summary_data # <<>>)
                 <=> mon[m].samples # <<>>
           /\ mon[m].samples = <<>> =>
                 /\ mon[m].updates = <<>>
                 /\ mon[m].alert_calls = <<>>
                 /\ files.summary = <<>>
                 /\ files.alerts = <<>>

\* C7: the readings passed to the update callback are, in order, a prefix of
\* the stored samples; sample k is evaluated for alerts after it was stored
\* and delivered, and before sample k+1 is taken.
C7_TicksInOrder ==
    \A m \in MonIds :
        /\ mon[m].evaluated <= Len(mon[m].updates)
        /\ Len(mon[m].updates) <= Len(mon[m].samples)
        /\ Len(mon[m].samples) <= mon[m].evaluated + 1
        /\ Len(mon[m].sample_times) = Len(mon[m].samples)
        /\ \A i \in 1 .. Len(mon[m].updates) :
              mon[m].updates[i] = Reading(mon[m].samples[i])
        /\ \A i \in 1 .. Len(mon[m].sample_times) - 1 :
              mon[m].sample_times[i] <= mon[m].sample_times[i + 1]

\* two complete ticks with different readings
C7_Witness ==
    \E m \in MonIds :
        /\ mon[m].evaluated = 2
        /\ Len(mon[m].samples) = 2
        /\ mon[m].samples[1] # mon[m].samples[2]

\* C8: an alert callback that raises ends neither the evaluation nor the
\* loop: every qualifying metric of the sample gets its AlertEvent, the
\* events recorded before stay, no exception leaves _check_alerts and the
\* monitor goes on to sleep for the next tick.
C8_AlertFailureSwallowed ==
    [][\A m \in MonIds :
          (mon[m].pc = "alerts" /\ mon'[m].pc # "alerts") =>
             /\ mon'[m].pc = "sleep"
             /\ ~mon'[m].exc
             /\ Len(mon'[m].alert_calls) = Len(mon'[m].alert_history)
             /\ SubSeq(mon'[m].alert_history, 1, Len(mon[m].alert_history))
                   = mon[m].alert_history
             /\ AlertsEnabled(mon[m]) =>
                   \A key \in Evaluable(mon[m]) :
                      Qualifies(mon[m], key, clock) =>
                         Len(EventsFor(mon'[m].alert_history, key))
                            = Len(EventsFor(mon[m].alert_history, key)) + 1]_vars

\* the callback raised for the first alert of a sample, the second metric of
\* the same sample was still recorded, and the next sample was taken
C8_Witness ==
    \E m \in MonIds :
        /\ Len(mon[m].alert_calls) >= 2
        /\ mon[m].alert_calls[1].raised
        /\ mon[m].alert_history[1].at = mon[m].alert_history[2].at
        /\ mon[m].alert_history[1].metric # mon[m].alert_history[2].metric
        /\ Len(mon[m].samples) = 2

\* C9: start_processing never clears the stop signal while the monitor
\* thread it started for the run is still alive.
C9_StopHeldUntilMonitorEnds ==
    [][(host.pc = "tail" /\ stop_event /\ ~stop_event')
          => ~Alive(host.created)]_vars

\* C10: at most one monitor thread is alive at any time.
C10_OneMonitorAlive ==
    Cardinality({m \in MonIds : Alive(m)}) <= 1

\* C11: when start_processing picks up the results of a run whose monitor has
\* stored a sample, it gets the summary that monitor's finalize computed, and
\* unless the window is closing it passes that text to gui.show_summary
\* before it returns.
C11_SummaryPresented ==
    [][/\ (host.pc = "read" /\ host'.pc = "tail" /\ host.monitor # NoMonitor
             /\ mon[host.monitor].samples # <<>>)
          => /\ host'.summary_text # <<>>
             /\ host'.summary_text
                   = finalise_summary(mon[host.monitor]).summary_text
       /\ (host.pc = "tail" /\ host'.pc = "return" /\ ~host.closing
             /\ host.summary_text # <<>>)
          => host'.shown = host.summary_text]_vars

\* C12: start_processing reads monitor.summary_text only when the monitor
\* thread is no longer alive.
C12_ReadAfterMonitorStopped ==
    host.pc = "read" => ~Alive(host.monitor)

\* the positions of the samples of r in which metric is present
PresentAt(r, metric) ==
    {i \in 1 .. Len(r.samples) : r.samples[i][metric] # NaN}

\* the sum of metric over the positions idx of the samples of r
SumAt(r, metric, idx) ==
    SeqSum([i \in 1 .. Len(r.samples) |->
               IF i \in idx THEN r.samples[i][metric] ELSE 0])

LineNames(text) == {text.lines[i].name : i \in 1 .. Len(text.lines)}

\* C13: the summary has, for each metric with a present value, the average,
\* maximum and minimum of exactly its present values, minimum <= average <=
\* maximum; a metric absent in every sample has no entry in the summary data,
\* in the summary text or in the trend map.
C13_StatsOverPresentValues ==
    \A m \in MonIds :
       (mon[m].summary_data # <<>> /\ mon[m].summary_text # <<>>) =>
          LET r       == mon[m]
              summary == r.summary_data[1]
          IN \A metric \in MetricSet :
                LET idx == PresentAt(r, metric)
                IN IF idx = {}
                   THEN /\ metric \notin DOMAIN summary
                        /\ Upper(metric) \notin LineNames(r.summary_text[1])
                        /\ files.summary # <<>> =>
                              /\ metric \notin DOMAIN files.summary[1].metrics
                              /\ metric \notin DOMAIN files.summary[1].trend
                   ELSE /\ metric \in DOMAIN summary
                        /\ Upper(metric) \in LineNames(r.summary_text[1])
                        /\ summary[metric].average
                              = <<SumAt(r, metric, idx), Cardinality(idx)>>
                        /\ \E i \in idx :
                              summary[metric].maximum = r.samples[i][metric]
                        /\ \E i \in idx :
                              summary[metric].minimum = r.samples[i][metric]
                        /\ \A i \in idx :
                              /\ r.samples[i][metric] <= summary[metric].maximum
                              /\ r.samples[i][metric] >= summary[metric].minimum
                        /\ summary[metric].minimum * Cardinality(idx)
                              <= summary[metric].average[1]
                        /\ summary[metric].average[1]
                              <= summary[metric].maximum * Cardinality(idx)

\* a finished run of two different cpu readings and no GPU reading at all
C13_Witness ==
    \E m \in MonIds :
        /\ RunEnded(m)
        /\ mon[m].summary_data # <<>>
        /\ files.summary # <<>>
        /\ Len(mon[m].samples) = 2
        /\ mon[m].samples[1].cpu # mon[m].samples[2].cpu
        /\ _is_nan(mon[m].samples[1].gpu) /\ _is_nan(mon[m].samples[2].gpu)
        /\ "gpu" \notin DOMAIN mon[m].summary_data[1]

\* the positions of the samples of r inside the trailing trend window in
\* which metric is present
InWindow(r, metric) ==
    {i \in PresentAt(r, metric) :
        r.sample_times[i] >= r.sample_times[Len(r.sample_times)] - r.trend_window}

SetMax(S) == CHOOSE x \in S : \A y \in S : y <= x
SetMin(S) == CHOOSE x \in S : \A y \in S : y >= x

\* the rendered trend of the summary line of metric: <<>> when there is none
LineTrend(text, metric) ==
    LET i == CHOOSE j \in 1 .. Len(text.lines) :
                 text.lines[j].name = Upper(metric)
    IN text.lines[i].trend

\* C14: the trend of a metric is its last present value minus its first
\* present value among the samples not older than the latest timestamp minus
\* the trend window; a metric with no present value in the window has no
\* trend, also when older samples give it an average, and a single value in
\* the window gives the trend 0.
C14_TrendOverWindow ==
    \A m \in MonIds :
       (mon[m].finalised >= 1 /\ mon[m].samples # <<>>) =>
          LET r == mon[m]
          IN \A metric \in MetricSet :
                LET idx   == InWindow(r, metric)
                    delta == r.samples[SetMax(idx)][metric]
                               - r.samples[SetMin(idx)][metric]
                IN /\ files.summary # <<>> =>
                         IF idx = {}
                         THEN metric \notin DOMAIN files.summary[1].trend
                         ELSE /\ metric \in DOMAIN files.summary[1].trend
                              /\ files.summary[1].trend[metric] = delta
                              /\ Cardinality(idx) = 1 =>
                                    files.summary[1].trend[metric] = 0
                   /\ PresentAt(r, metric) # {} =>
                         LET shown == LineTrend(r.summary_text[1], metric)
                         IN IF idx = {} THEN shown = <<>>
                            ELSE /\ shown # <<>>
                                 /\ shown[2] = Abs(delta)
                                 /\ shown[1] = "increased" <=> delta > 0
                                 /\ shown[1] = "decreased" <=> delta < 0

\* the GPU was read in a sample older than the window and in none since: gpu
\* has an average and no trend, cpu has a trend over the window only
C14_Witness ==
    \E m \in MonIds :
        /\ mon[m].finalised = 1
        /\ files.summary # <<>>
        /\ Len(mon[m].samples) = 3
        /\ PresentAt(mon[m], "gpu") = {1}
        /\ InWindow(mon[m], "cpu") = {2, 3}
        /\ mon[m].samples[1].cpu # mon[m].samples[2].cpu
        /\ "gpu" \in DOMAIN files.summary[1].metrics
        /\ "gpu" \notin DOMAIN files.summary[1].trend
        /\ "cpu" \in DOMAIN files.summary[1].trend

RanScenario(r) ==
    /\ r.pc \in {"done", "raised"}
    /\ r.evaluated = Len(ScenarioCpu)
    /\ r.samples = [i \in 1 .. Len(ScenarioCpu) |->
                       [cpu |-> ScenarioCpu[i], ram |-> 40,
                        gpu |-> 50, vram |-> 55]]

\* C16: with threshold cpu 20, cooldown 0 and an alert callback, the run of
\* five ticks that samples cpu 10, 25, 60, 45, 30 with RAM 40 and GPU/VRAM
\* 50/55 records four cpu alerts, on ticks 2 to 5 and none on tick 1, and its
\* summary has cpu average 34, maximum 60, minimum 10, ram 40/40/40 and
\* alerts_triggered = 4.
C16_FiveTickScenario ==
    \A m \in MonIds :
       RanScenario(mon[m]) =>
          LET r == mon[m]
          IN /\ r.alert_history =
                   [i \in 1 .. 4 |-> [at |-> r.sample_times[i + 1],
                                      metric |-> "CPU",
                                      value |-> ScenarioCpu[i + 1]]]
             /\ Len(r.alert_calls) = 4
             /\ r.summary_data # <<>>
             /\ r.summary_data[1]["cpu"].average[1]
                   = 34 * r.summary_data[1]["cpu"].average[2]
             /\ r.summary_data[1]["cpu"].maximum = 60
             /\ r.summary_data[1]["cpu"].minimum = 10
             /\ r.summary_data[1]["ram"].average[1]
                   = 40 * r.summary_data[1]["ram"].average[2]
             /\ r.summary_data[1]["ram"].maximum = 40
             /\ r.summary_data[1]["ram"].minimum = 40
             /\ r.summary_text # <<>>
             /\ r.summary_text[1].alerts = 4
             /\ r.summary_text[1].lines[1]
                   = [name |-> "CPU", avg |-> 340, mx |-> 60, mn |-> 10,
                      trend |-> <<"increased", 20>>]
             /\ files.summary # <<>> => files.summary[1].alerts_triggered = 4
             /\ files.alerts # <<>> => Len(files.alerts[1]) = 4

\* the scenario has run to its end and its summary and alert files exist
C16_Witness ==
    \E m \in MonIds :
        /\ RanScenario(mon[m])
        /\ mon[m].pc = "done"
        /\ files.summary # <<>>
        /\ files.alerts # <<>>
        /\ Len(mon[m].updates) = 5

\* the step of monitor m that completes a sampling step (lines 111-123)
SamplingStep(m) == mon[m].pc = "sample" /\ mon'[m].pc = "log"

\* C17: the sample store only grows by appending: every step leaves the
\* stored samples and timestamps as they are or, when it is a sampling step,
\* appends the reading just taken and the current instant; nothing stored is
\* modified or evicted, and both lists have the same length in every state.
C17_StoreAppendOnly ==
    [][\A m \in MonIds :
          LET old == mon[m]
              new == mon'[m]
              n   == Len(old.samples)
          IN /\ Len(new.samples) = Len(new.sample_times)
             /\ IF SamplingStep(m)
                THEN /\ Len(new.samples) = n + 1
                     /\ SubSeq(new.samples, 1, n) = old.samples
                     /\ SubSeq(new.sample_times, 1, n) = old.sample_times
                     /\ Reading(new.samples[n + 1]) = new.cur
                     /\ new.sample_times[n + 1] = clock
                ELSE /\ new.samples = old.samples
                     /\ new.sample_times = old.sample_times]_vars

\* a run that stored two samples at different instants and has returned
C17_Witness ==
    \E m \in MonIds :
        /\ mon[m].pc = "done"
        /\ mon[m].finalised = 1
        /\ Len(mon[m].samples) = 2
        /\ mon[m].sample_times[1] < mon[m].sample_times[2]

\* the alert_thresholds argument of r gives metric a threshold that is not null
Configured(r, metric) ==
    \E i \in 1 .. Len(r.raw_thresholds) :
        /\ Lower(r.raw_thresholds[i][1]) = metric
        /\ r.raw_thresholds[i][2] # None

CallsFor(calls, metric) == SelectSeq(calls, LAMBDA c : c.metric = metric)

\* C18: every AlertEvent and every alert callback is for a metric that was
\* given a non-null threshold, and an evaluation in which a metric's value is
\* absent records no event and makes no callback for that metric, with or
\* without a threshold for it.
C18_NoThresholdNoAlert ==
    /\ [](\A m \in MonIds :
            /\ \A i \in 1 .. Len(mon[m].alert_history) :
                  \E metric \in MetricSet :
                     /\ mon[m].alert_history[i].metric = Upper(metric)
                     /\ Configured(mon[m], metric)
            /\ \A i \in 1 .. Len(mon[m].alert_calls) :
                  /\ mon[m].alert_calls[i].metric \in MetricSet
                  /\ Configured(mon[m], mon[m].alert_calls[i].metric))
    /\ [][\A m \in MonIds :
             (mon[m].pc = "alerts" /\ mon'[m].pc # "alerts") =>
                \A metric \in MetricSet :
                   (\/ mon[m].cur[metric] = None
                    \/ ~Configured(mon[m], metric)) =>
                      /\ EventsFor(mon'[m].alert_history, metric)
                            = EventsFor(mon[m].alert_history, metric)
                      /\ CallsFor(mon'[m].alert_calls, metric)
                            = CallsFor(mon[m].alert_calls, metric)]_vars

\* a sample without a GPU reading was evaluated under a gpu threshold: the
\* cpu alert of that sample is recorded and nothing for gpu
C18_Witness ==
    \E m \in MonIds :
        /\ Configured(mon[m], "gpu")
        /\ mon[m].evaluated = 1
        /\ mon[m].cur.gpu = None
        /\ mon[m].cur.cpu >= 20
        /\ Len(mon[m].alert_history) = 1
        /\ mon[m].alert_history[1].metric = "CPU"

\* C19: after finalize on a run with samples, the alert-history file holds
\* the alert history unless its own write failed, whether or not the summary
\* file could be written, and the summary file is written unless its own
\* write failed, whether or not the alert-history file could be; neither
\* failure raises out of run or leaves summary_text unset.
C19_ArtifactsIndependent ==
    /\ [](\A m \in MonIds :
            (mon[m].finalised >= 1 /\ mon[m].samples # <<>>) =>
               /\ mon[m].summary_text # <<>>
               /\ (mon[m].alert_log_path /\ mon[m].alert_history # <<>>
                      /\ "alerts" \notin mon[m].errors)
                     => files.alerts = <<mon[m].alert_history>>
               /\ (mon[m].summary_path /\ "summary" \notin mon[m].errors)
                     => /\ files.summary # <<>>
                        /\ files.summary[1].metrics = mon[m].summary_data[1]
                        /\ files.summary[1].alerts_triggered
                              = Len(mon[m].alert_history))
    /\ [][\A m \in MonIds :
             (mon[m].pc = "finalise" /\ mon'[m].pc # "finalise") =>
                /\ mon'[m].exc = mon[m].exc
                /\ mon'[m].pc = IF mon[m].exc THEN "raised" ELSE "done"]_vars

\* the summary file could not be written, the alert history was, and run
\* returned normally with its summary text
C19_Witness ==
    \E m \in MonIds :
        /\ mon[m].pc = "done"
        /\ mon[m].errors = {"summary"}
        /\ files.summary = <<>>
        /\ files.alerts = <<mon[m].alert_history>>
        /\ mon[m].summary_text # <<>>

\* C20: a failure to open the raw-sample log at the start, or to write or
\* flush a row in a tick, does not end the run: run goes on to its next step,
\* the tick delivers its sample to the update callback, and no exception
\* propagates.
C20_LogFailureCaught ==
    [][\A m \in MonIds :
          /\ (mon[m].pc = "start" /\ mon'[m].pc # "start") =>
                (mon'[m].pc = "prime" /\ ~mon'[m].exc)
          /\ (mon[m].pc = "log" /\ mon'[m].pc # "log") =>
                (mon'[m].pc = "update" /\ ~mon'[m].exc)]_vars

\* C21: once run has returned or raised, the raw-sample log it opened is no
\* longer open, whichever way run ended: the stop signal, an exception in a
\* tick, or an exception of the priming call before the loop.
C21_LogClosedOnExit ==
    \A m \in MonIds : RunEnded(m) => mon[m].csv_file # "open"

\* C22: the sampling step of a tick never ends the loop: it always stores a
\* sample with cpu and ram present, in which gpu and vram are absent exactly
\* when the GPU could not be read, and no exception leaves the step.
C22_SamplingNeverRaises ==
    [][\A m \in MonIds :
          (mon[m].pc = "sample" /\ mon'[m].pc # "sample") =>
             /\ mon'[m].pc = "log"
             /\ ~mon'[m].exc
             /\ Len(mon'[m].samples) = Len(mon[m].samples) + 1
             /\ LET sample == mon'[m].samples[Len(mon'[m].samples)]
                IN /\ ~_is_nan(sample.cpu) /\ ~_is_nan(sample.ram)
                   /\ _is_nan(sample.gpu) <=> mon'[m].cur.gpu = None
                   /\ _is_nan(sample.vram) <=> mon'[m].cur.vram = None]_vars

\* C23: on a machine with n >= 1 GPUs and a working GPU library, the sample
\* holds the readings of device i when the preferred index i is in 0 .. n-1,
\* and those of device 0 for every other i, negative ones included, and when
\* no index is configured.
C23_PreferredGpuOrFirst ==
    [][\A m \in MonIds :
          (SamplingStep(m) /\ sensors.lib /\ ~sensors.faulty
              /\ Cardinality(sensors.gpus) = 1) =>
             LET gpus == CHOOSE g \in sensors.gpus : TRUE
                 i    == mon[m].gpu_index
                 dev  == IF i # <<>> /\ i[1] >= 0 /\ i[1] < Len(gpus)
                         THEN gpus[i[1] + 1] ELSE gpus[1]
             IN Len(gpus) > 0 =>
                   /\ mon'[m].cur.gpu = dev.load
                   /\ mon'[m].cur.vram = dev.mem]_vars

\* C24 as stated: a zero or negative interval given to the monitor is
\* replaced by 1.0 second.
C24_NonPositiveBecomesOne ==
    \A m \in MonIds :
       (mon[m].pc # "unborn" /\ mon[m].given_interval <= 0) =>
          mon[m].interval = mon[m].hz

\* C24, amended: the effective interval is at least 0.1 s, hence positive; a
\* zero or negative interval, given to the monitor or written in config.yaml,
\* becomes 0.1 s, and only a missing or non-numeric monitor_interval becomes
\* the default 1.0 s; every sleep of the running and of the paused loop ends
\* later than it begins.
C24_IntervalFloor ==
    /\ [](\A m \in MonIds :
            mon[m].pc # "unborn" =>
               /\ mon[m].interval > 0
               /\ 10 * mon[m].interval >= mon[m].hz
               /\ mon[m].given_interval <= 0 =>
                     10 * mon[m].interval = mon[m].hz
               /\ 10 * mon[m].given_interval >= mon[m].hz =>
                     mon[m].interval = mon[m].given_interval)
    /\ [](LET y == host.cfg.yaml_interval
              v == load_interval(y, host.cfg.hz)
          IN /\ 10 * v >= host.cfg.hz
             /\ y = <<>> => v = host.cfg.hz
             /\ (y # <<>> /\ y[1] <= 0) => 10 * v = host.cfg.hz
             /\ (y # <<>> /\ 10 * y[1] >= host.cfg.hz) => v = y[1])
    /\ [][\A m \in MonIds :
             (mon'[m].pc \in {"sleep", "psleep"}
                 /\ mon[m].pc \notin {"sleep", "psleep"}) =>
                mon'[m].wake > clock]_vars

\* a monitor given a non-positive interval took two samples with one paused
\* iteration in between: three sleeps of 0.1 s
C24_Witness ==
    \E m \in MonIds :
        /\ mon[m].hz = 10
        /\ mon[m].given_interval <= 0
        /\ Len(mon[m].samples) = 2
        /\ mon[m].sample_times[2] - mon[m].sample_times[1] = 2
        /\ mon[m].pc = "loop"

\* monitor record r is between two ticks: at the stop check, in a paused
\* iteration, about to sample, or asleep after a completed tick
AtTickBoundary(r) == r.pc \in {"loop", "pausechk", "psleep", "sample", "sleep"}

\* C25: between ticks the update callback has been called exactly once per
\* stored sample, and once per data row when the raw log is open; the k-th
\* call carried the cpu, gpu, vram and ram of the k-th sample, an absent gpu
\* or vram as None and never as a number.
C25_OneUpdatePerTick ==
    \A m \in MonIds :
       AtTickBoundary(mon[m]) =>
          /\ Len(mon[m].updates) = Len(mon[m].samples)
          /\ mon[m].csv_file = "open" => mon[m].log_rows = Len(mon[m].samples)
          /\ \A k \in 1 .. Len(mon[m].samples) :
                LET sample == mon[m].samples[k]
                    call   == mon[m].updates[k]
                IN /\ call.cpu = sample.cpu
                   /\ call.ram = sample.ram
                   /\ IF _is_nan(sample.gpu) THEN call.gpu = None
                      ELSE call.gpu = sample.gpu
                   /\ IF _is_nan(sample.vram) THEN call.vram = None
                      ELSE call.vram = sample.vram

\* two completed ticks with the raw log open, the first without and the
\* second with a GPU reading
C25_Witness ==
    \E m \in MonIds :
        /\ mon[m].pc = "sleep"
        /\ mon[m].csv_file = "open"
        /\ mon[m].log_rows = 2
        /\ Len(mon[m].updates) = 2
        /\ mon[m].updates[1].gpu = None
        /\ mon[m].updates[2].gpu # None

\* a is an initial segment of b
IsPrefix(a, b) ==
    /\ Len(a) <= Len(b)
    /\ \A i \in 1 .. Len(a) : a[i] = b[i]

\* C26: alert events are only ever appended, in time order; the
\* alert-history file changes only in a step of _finalise_summary, and a run
\* that reached the loop and has ended has left the file with exactly its
\* alert events, in order, if an alert-history path is configured and an
\* event was recorded (unless that write itself failed and was logged), and
\* has left no file when no event was recorded or no path is configured.
C26_AlertFileIffAlerts ==
    /\ [][/\ \A m \in MonIds :
               /\ IsPrefix(mon[m].alert_history, mon'[m].alert_history)
               /\ \A i \in 1 .. Len(mon'[m].alert_history) - 1 :
                     mon'[m].alert_history[i].at
                        <= mon'[m].alert_history[i + 1].at
          /\ files'.alerts # files.alerts =>
                \E m \in MonIds : mon'[m].finalised = mon[m].finalised + 1]_vars
    /\ [](\A m \in MonIds :
            (RunEnded(m) /\ mon[m].looped) =>
               /\ (mon[m].alert_log_path /\ mon[m].alert_history # <<>>
                      /\ "alerts" \notin mon[m].errors)
                     => files.alerts = <<mon[m].alert_history>>
               /\ files.alerts # <<>> =>
                     /\ mon[m].alert_log_path
                     /\ files.alerts = <<mon[m].alert_history>>
                     /\ mon[m].alert_history # <<>>)

\* the lines of a text file's content, as str.splitlines gives them
RECURSIVE SplitLines(_, _)
SplitLines(content, line) ==
    IF content = <<>> THEN IF line = <<>> THEN <<>> ELSE <<line>>
    ELSE IF Head(content) = "\n"
    THEN <<line>> \o SplitLines(Tail(content), <<>>)
    ELSE SplitLines(Tail(content), Append(line, Head(content)))

OutputLines ==
    IF files.output = <<>> THEN <<>> ELSE SplitLines(files.output[1], <<>>)

\* the frames read so far whose OCR text is not empty
TextFrames == {i \in 1 .. Len(proc.texts) : proc.texts[i] # <<>>}

\* the video was read to its end and the stop signal was never set
ReadToEnd ==
    /\ proc.pc = "done"
    /\ proc.frame_idx = Len(proc.frames)
    /\ ~proc.stop_seen
    /\ ~stop_event

\* C27: at every moment of process() the output file holds exactly one line
\* per frame read so far whose OCR text is non-empty, in frame order, the
\* line being what verify_text returned for that frame; a frame without text
\* adds no line, and after a video read to its end without a stop every
\* frame with text has its line.
C27_OneLinePerTextFrame ==
    (proc.pc \notin {"idle", "start", "raised"} /\ files.output # <<>>) =>
       /\ Len(OutputLines) = Cardinality(TextFrames)
       /\ OutputLines = proc.cleaned
       /\ ReadToEnd =>
             Len(OutputLines) =
                Cardinality({i \in 1 .. Len(proc.frames) :
                               ~proc.frames[i].fails
                                  /\ extract_text(proc.frames[i]) # <<>>})

\* C28: once process() has read the video to its end with the stop signal
\* never set, the last update-callback call it made carries no frame,
\* progress 100 and ETA 0, whatever frame count the capture reported.
C28_FinalProgressIsFull ==
    ReadToEnd =>
       /\ proc.updates # <<>>
       /\ proc.updates[Len(proc.updates)]
             = [frame |-> None, progress |-> 100, ratio |-> <<1, 1>>, eta |-> 0]

\* a video of two frames reported as three: the last frame was shown at 66%
\* and the final call followed
C28_Witness ==
    /\ ReadToEnd
    /\ Len(proc.frames) = 2
    /\ proc.reported = 3
    /\ Len(proc.updates) = 3
    /\ proc.updates[2].progress = 66

\* the configuration has an entry for this language, whatever the case
HasEntry(lang) ==
    \E k \in DOMAIN conf.ocr_preprocessing : Lower(k) = Lower(lang)

EntryOf(lang) ==
    conf.ocr_preprocessing[CHOOSE k \in DOMAIN conf.ocr_preprocessing :
                              Lower(k) = Lower(lang)]

\* the places in the list asked for of the languages that have an entry
Listed == {i \in 1 .. Len(conf.languages) : HasEntry(conf.languages[i])}

\* C29: preprocessing_for(languages) on a loaded configuration answers the
\* entry of the first listed language that has one, matched without regard
\* to case; with no such language the 'default' entry, or the empty mapping
\* when there is none; the answer is that entry alone, never merged with
\* 'default'.
C29_FirstListedLanguage ==
    conf.asked =>
       conf.result =
          IF Listed # {} THEN EntryOf(conf.languages[SetMin(Listed)])
          ELSE IF "default" \in DOMAIN conf.ocr_preprocessing
          THEN conf.ocr_preprocessing["default"]
          ELSE EmptyMap

\* fr has no entry, JA is matched by the entry ja, and the answer lacks the
\* resize_scale that only 'default' sets
C29_Witness ==
    /\ conf.asked
    /\ conf.languages = <<"fr", "JA">>
    /\ DOMAIN conf.ocr_preprocessing = {"default", "ja"}
    /\ conf.result = conf.ocr_preprocessing["ja"]
    /\ "resize_scale" \in DOMAIN conf.ocr_preprocessing["default"]
    /\ "resize_scale" \notin DOMAIN conf.result

\* the call had a text and a model name, so it went past line 40
NeedsModel(call) == call.text # <<>> /\ call.model_name # ""

\* the call found no verifier and pipeline() raised
LoadFailed(call) == NeedsModel(call) /\ ~call.cached /\ ~call.load_ok

\* C30: a verify_text call never raises; it returns its text unchanged when
\* the text or the model name is empty, when the model cannot be loaded and
\* when formatting the prompt or generating fails; a failed load leaves
\* _verifier unset, and the call after a failed load attempts the load again.
C30_VerifyTextNeverRaises ==
    llm_call # <<>> =>
       LET call == llm_call[1]
       IN /\ ~call.raised
          /\ (~NeedsModel(call) \/ LoadFailed(call)
                 \/ FormatRaises(call.prompt_template) \/ ~call.gen_ok)
                => call.result = call.text
          /\ LoadFailed(call) => verifier = <<>>
          /\ (call.after_failed_load /\ NeedsModel(call)) =>
                /\ ~call.cached
                /\ call.loads = 1

\* the call after a failed load loaded the model and returned what it
\* generated, stripped
C30_Witness ==
    /\ llm_call # <<>>
    /\ llm_call[1].after_failed_load
    /\ llm_call[1].loads = 1
    /\ verifier = <<"flan">>
    /\ llm_call[1].text = <<"a">>
    /\ llm_call[1].result = <<"A">>

\* C31: in every tick the sample is stored first, then handed to the update
\* callback, then evaluated for alerts, and only then written to the
\* raw-sample log: at every moment no more rows have been written than
\* samples were evaluated, no more samples evaluated than handed to the
\* callback, and no more handed over than stored, so a tick whose update
\* callback raised has left no row.
C31_LogRowAfterCallbacks ==
    \A m \in MonIds :
        /\ Len(mon[m].updates) <= Len(mon[m].samples)
        /\ mon[m].evaluated <= Len(mon[m].updates)
        /\ mon[m].log_rows <= mon[m].evaluated

\* the samples evaluated so far whose cpu reading reaches the threshold
QualifyingCpu(r) ==
    {i \in 1 .. Min(r.evaluated, Len(r.samples)) : r.samples[i].cpu >= 20}

\* C32: the monitor made from the loaded configuration has the cooldown the
\* file gives whenever that is 0 or more, the trend window the file gives
\* whenever that is 10 s or more and the interval the file gives whenever
\* that is positive; with a cooldown of 0 in the file every evaluated sample
\* at or over the threshold has its alert event.
C32_ConfigPassedThrough ==
    \A m \in MonIds : mon[m].pc # "unborn" =>
        LET yc == host.cfg.yaml_cooldown
            yw == host.cfg.yaml_trend_window
            yi == host.cfg.yaml_interval
        IN /\ (yc # <<>> /\ yc[1] >= 0) => mon[m].alert_cooldown = yc[1]
           /\ (yw # <<>> /\ yw[1] >= MinTrendWindow * mon[m].hz)
                 => mon[m].trend_window = yw[1]
           /\ (yi # <<>> /\ yi[1] > 0) => mon[m].interval = yi[1]
           /\ yc = <<0>> =>
                 Len(mon[m].alert_history) = Cardinality(QualifyingCpu(mon[m]))

\* C33: whether or not an alert callback was supplied, every evaluation of a
\* sample appends an alert event for each thresholded metric whose value is
\* at or over the threshold outside its cooldown, and the alert count of the
\* summary made at finalize is the number of events recorded.
C33_AlertsWithoutCallback ==
    /\ [][\A m \in MonIds :
            (mon[m].pc = "alerts" /\ mon'[m].pc # "alerts") =>
               \A key \in Evaluable(mon[m]) :
                  Qualifies(mon[m], key, clock) =>
                     Len(EventsFor(mon'[m].alert_history, key))
                        = Len(EventsFor(mon[m].alert_history, key)) + 1]_vars
    /\ [](\A m \in MonIds :
            mon[m].summary_text # <<>> =>
               mon[m].summary_text[1].alerts = Len(mon[m].alert_history))

\* C34: while the pause signal stays set, a monitor stores at most one sample
\* and makes at most one update-callback call beyond what it had when the
\* signal was set; a monitor that was between ticks with the pause signal
\* set when stop was set stores no further sample while the pause signal
\* stays set, and once its run has ended finalize has been executed.
C34_PauseTakesEffect ==
    \A m \in MonIds :
        /\ (pause_event /\ stop_mark.paused # <<>>) =>
              /\ Len(mon[m].samples) <= stop_mark.paused[1].samples[m] + 1
              /\ Len(mon[m].updates) <= stop_mark.paused[1].updates[m] + 1
        /\ (stop_event /\ stop_mark.in_pause[m]) =>
              /\ Len(mon[m].samples) = stop_mark.lens[m]
              /\ RunEnded(m) => mon[m].finalised = 1

\* C35: the alert history is as long as the sequence of alert-callback calls
\* attempted so far, call i being the delivery of event i whether or not it
\* raised; the cooldown clock of a metric changes only in a step that
\* appends an event of that metric, and is then the time of that event; the
\* alerts_triggered a finalize writes is the length of the alert history.
C35_HistoryCountsDeliveries ==
    /\ [](\A m \in MonIds :
            /\ Len(mon[m].alert_history) = Len(mon[m].alert_calls)
            /\ \A i \in 1 .. Len(mon[m].alert_calls) :
                  /\ Upper(mon[m].alert_calls[i].metric)
                        = mon[m].alert_history[i].metric
                  /\ mon[m].alert_calls[i].value = mon[m].alert_history[i].value)
    /\ [][\A m \in MonIds :
             /\ \A key \in DOMAIN mon[m].last_alerts :
                   mon'[m].last_alerts[key] # mon[m].last_alerts[key] =>
                      LET after == EventsFor(mon'[m].alert_history, key)
                      IN /\ Len(after)
                              = Len(EventsFor(mon[m].alert_history, key)) + 1
                         /\ after[Len(after)].at = mon'[m].last_alerts[key]
             /\ (mon'[m].finalised = mon[m].finalised + 1
                   /\ files'.summary # files.summary) =>
                      files'.summary[1].alerts_triggered
                         = Len(mon[m].alert_history)]_vars

\* a run whose first alert delivery raised and whose second qualifying
\* sample fell inside the cooldown, finalized with a summary file that
\* reports the one recorded event
C35_Witness ==
    \E m \in MonIds :
        /\ mon[m].finalised = 1
        /\ mon[m].evaluated = 2
        /\ Len(mon[m].alert_history) = 1
        /\ mon[m].alert_calls[1].raised
        /\ mon[m].samples[2].cpu >= 20
        /\ mon[m].last_alerts["cpu"] = mon[m].alert_history[1].at
        /\ files.summary # <<>>
        /\ files.summary[1].alerts_triggered = 1

\* C36: every update-callback call of process() carries a progress above 0
\* and at most 100, no call carries a smaller progress than a call before
\* it, and no call carries a negative ETA, whatever frame count the capture
\* reported and however the wall clock moved.
C36_ProgressBounded ==
    proc.pc # "idle" =>
       \A j \in 1 .. Len(proc.updates) :
          LET u == proc.updates[j]
          IN /\ u.ratio[2] > 0
             /\ u.ratio[1] > 0
             /\ u.ratio[1] <= u.ratio[2]
             /\ u.progress <= 100
             /\ u.eta >= 0
             /\ \A i \in 1 .. j - 1 :
                   /\ proc.updates[i].ratio[1] * u.ratio[2]
                         <= u.ratio[1] * proc.updates[i].ratio[2]
                   /\ proc.updates[i].progress <= u.progress

\* a video of two frames reported as one, read to its end while time
\* passed: both frames were shown at 100% with the second one past the
\* reported count, and the final call followed
C36_Witness ==
    /\ ReadToEnd
    /\ proc.reported = 1
    /\ Len(proc.frames) = 2
    /\ proc.elapsed > 0
    /\ Len(proc.updates) = 3
    /\ proc.updates[2].ratio = <<1, 1>>
    /\ proc.updates[2].eta = 0

\* what the frames read leave in the output file, given the cleaned texts in
\* the order verify_text returned them: nothing for a frame whose OCR raised
\* or found no text
RECURSIVE LinesOf(_, _)
LinesOf(frames_read, cleaned) ==
    IF frames_read = <<>> THEN <<>>
    ELSE IF Head(frames_read).fails \/ extract_text(Head(frames_read)) = <<>>
    THEN LinesOf(Tail(frames_read), cleaned)
    ELSE IF cleaned = <<>> THEN <<"missing">>
    ELSE FrameWritten(<<>>, Head(cleaned))
            \o LinesOf(Tail(frames_read), Tail(cleaned))

\* C37: the step of process() that reads a frame whose OCR raises writes
\* nothing to the output file, records an empty text, calls the update
\* callback for that frame and goes on to the stop check of the loop; at
\* every moment the output file holds the cleaned texts of the other frames
\* read so far that had text, in frame order.
C37_OcrFailureSkipsFrame ==
    /\ [][(proc.pc = "read" /\ proc'.pc # "read"
             /\ proc.frame_idx < Len(proc.frames)
             /\ proc.frames[proc.frame_idx + 1].fails) =>
               /\ files' = files
               /\ proc'.pc = "check"
               /\ proc'.frame_idx = proc.frame_idx + 1
               /\ proc'.texts = Append(proc.texts, <<>>)
               /\ proc'.cleaned = proc.cleaned
               /\ Len(proc'.updates) = Len(proc.updates) + 1
               /\ proc'.updates[Len(proc'.updates)].frame = proc'.frame_idx]_vars
    /\ []((proc.pc \notin {"idle", "start", "raised"} /\ files.output # <<>>) =>
             files.output[1]
                = LinesOf(SubSeq(proc.frames, 1, proc.frame_idx), proc.cleaned))

\* the OCR raised on the first of two frames: the video was read to its
\* end, both frames were shown and the output holds the line of the second
C37_Witness ==
    /\ ReadToEnd
    /\ Len(proc.frames) = 2
    /\ proc.frames[1].fails
    /\ ~proc.frames[2].fails
    /\ proc.texts[1] = <<>>
    /\ proc.updates[1].frame = 1 /\ proc.updates[2].frame = 2
    /\ proc.cleaned = <<<<"a">>>>
    /\ files.output = <<<<"a", "\n">>>>

\* the calls of the update callback that carry no frame: the final update
FinalUpdates == {i \in 1 .. Len(proc.updates) : proc.updates[i].frame = None}

\* C38: once a stop check of the frame loop has found the stop signal set,
\* process() reads no further frame and makes no further update-callback
\* call, so its calls never include the final one; no more than one frame is
\* read after the stop signal was set; and process() returns with the
\* capture released, on that path as after a video read to its end.
C38_StopEndsFrameLoop ==
    /\ [](proc.pc # "idle" =>
            /\ proc.cancelled =>
                  /\ proc.pc \in {"release", "done"}
                  /\ stop_event
                  /\ FinalUpdates = {}
            /\ stop_event => proc.frame_idx <= stop_mark.frames + 1
            /\ proc.pc = "done" => proc.released)
    /\ [][(proc.pc # "idle" /\ proc.cancelled) =>
             /\ proc'.frame_idx = proc.frame_idx
             /\ proc'.updates = proc.updates
             /\ files' = files]_vars

\* the stop signal was set while the first of two frames was being
\* processed: that frame was shown, the check after the update found the
\* signal, and process() returned with the capture released and one update
C38_Witness ==
    /\ proc.pc = "done"
    /\ proc.cancelled
    /\ proc.released
    /\ Len(proc.frames) = 2
    /\ stop_mark.frames = 0
    /\ proc.frame_idx = 1
    /\ Len(proc.updates) = 1

\* the monitor has left the sampling loop of run, or its run has ended
LeftLoop(m) ==
    mon[m].pc \in {"finally", "finalise", "done", "raised", "collected"}

\* C39: a process() that found the video unopenable has raised with the
\* output file as it was before the call and without any update-callback
\* call; and when start_processing, after a process() that raised, comes to
\* clear the stop signal, the monitor it started for the run has left its
\* sampling loop, and a monitor whose run has returned has run finalize.
C39_UnopenableVideo ==
    /\ [](proc.pc = "raised" =>
            /\ ~proc.opened
            /\ proc.updates = <<>>
            /\ proc.frame_idx = 0)
    /\ [][(proc.pc = "start" /\ ~proc.opened) =>
             (proc'.pc \in {"start", "raised"} /\ files' = files)]_vars
    /\ [][(host.pc = "tail" /\ host'.pc # "tail" /\ host.had_error
             /\ host.show_resource_usage /\ ~host.closing) =>
               /\ LeftLoop(host.created)
               /\ mon[host.created].pc = "done" =>
                     mon[host.created].finalised = 1]_vars

\* the start callback of a run is executing: start_processing has been
\* entered and has not returned
CallbackRunning ==
    host.pc \in {"begin", "mkmon", "process", "finally", "join", "joining",
                 "read", "tail"}

\* C40: never more than one start callback is executing; from the Start
\* click that began a run until that run's start callback has returned,
\* after a process() that returned as after one that raised, the
\* in-progress flag is set, so that a Start click in between is ignored.
C40_OneRunAtATime ==
    host.main # "destroyed" =>
       /\ host.active <= 1
       /\ host.active = (IF CallbackRunning THEN 1 ELSE 0)
       /\ CallbackRunning => host.processing
       /\ host.processing => host.pc # "idle"

\* a first run is over and the start callback of the second run has
\* returned with the flag still set: a Start click now is ignored
C40_Witness ==
    /\ host.main = "loop"
    /\ host.created = 2
    /\ host.processing
    /\ host.pc = "return"
    /\ host.active = 0
    /\ mon[2].pc # "unborn"
====
